---------------------------- MODULE Spec2Model ----------------------------
(***************************************************************************)
(* Model of src/clean-up/remove_resources.py: ResourceCleaner.cleanup and  *)
(* the operations it runs, one action per service call, against a model of *)
(* the asset-management service (assets, hierarchy associations, asset     *)
(* models, computation models, time series).                               *)
(***************************************************************************)
EXTENDS Naturals, Integers, Sequences, FiniteSets, Bags, TLC

(***************************************************************************)
(* Bounds of the model.                                                    *)
(***************************************************************************)
\* service calls that may raise an unexpected exception, over all runs
MaxFaults == 1
\* invocations of the script (the second one is a re-run)
MaxRuns == 2
\* items the service returns in one page of a list call
PageSize == 2

(***************************************************************************)
(* The resources of the account.                                           *)
(***************************************************************************)
None == "none"

Assets == {"A", "B", "C", "D"}

Models == {"M1", "M2", "M3"}

\* hierarchy definitions of the asset models, <<hierarchy id, child model id>>
InitialHierarchies == [m \in Models |-> CASE m = "M1" -> {<<"h1", "M2">>}
                                          [] m = "M2" -> {<<"h2", "M3">>}
                                          [] OTHER -> {}]

\* the order in which the service lists identifiers
Rank(x) ==
    CASE x \in {"A", "M1", "h1", "K1", "s1", "d1", "lm1", "is1", "j1"} -> 1
      [] x \in {"B", "M2", "h2", "K2", "s2", "d2", "lm2", "is2", "j2"} -> 2
      [] x \in {"C", "M3", "h3", "K3", "s3", "d3", "j3"} -> 3
      [] OTHER -> 4

RECURSIVE Listing(_)
Listing(S) ==
    IF S = {} THEN <<>>
    ELSE LET x == CHOOSE y \in S : \A z \in S : Rank(y) <= Rank(z)
         IN  <<x>> \o Listing(S \ {x})

\* the first page of a list call whose caller never follows nextToken
FirstPage(s) == SubSeq(s, 1, IF Len(s) < PageSize THEN Len(s) ELSE PageSize)

Range(s) == {s[j] : j \in 1..Len(s)}

\* the page of a listing that follows continuation token t (0: the first page)
PageAt(s, t) == SubSeq(s, t + 1, IF Len(s) < t + PageSize THEN Len(s) ELSE t + PageSize)

\* the nextToken returned with that page (0: none)
TokenAfter(s, t) == IF t + PageSize < Len(s) THEN t + PageSize ELSE 0

\* Python's "sub in s" on strings
Contains(sub, s) ==
    \E k \in 0..Len(s) : k + Len(sub) <= Len(s) /\ SubSeq(s, k + 1, k + Len(sub)) = sub

CompModels == {"K1", "K2", "K3"}

\* the asset the result property of a computation model is bound to
CompAsset == [k \in CompModels |-> IF k = "K2" THEN "B" ELSE "A"]

\* config["anomaly_detection"]["asset_id"]
ConfigAssetId == "A"

DATA_STREAM_PREFIX == <<"/", "U">>

Aliases == {"s1", "s2", "s3"}

\* the alias strings of the time series
AliasText == [t \in Aliases |-> CASE t = "s1" -> <<"/", "U", "1">>
                                   [] t = "s2" -> <<"x", "/", "U">>
                                   [] OTHER -> <<"/", "x", "U">>]

(***************************************************************************)
(* The resources of the equipment-anomaly-detection service that           *)
(* src/cleanup/remove_l4e_resources.py removes.                            *)
(***************************************************************************)
\* the internal id of the asset, as text
AssetIdText == <<"A">>

Datasets == {"d1", "d2", "d3"}

\* the DatasetName strings: d1 and d2 hold the asset id, and d1's name is the
\* beginning of d2's
DatasetText == [d \in Datasets |-> CASE d = "d1" -> <<"A", "-">>
                                     [] d = "d2" -> <<"A", "-", "2">>
                                     [] OTHER -> <<"X", "-">>]

\* Python's s.startswith(pre), the service's DatasetNameBeginsWith
BeginsWith(pre, s) == Len(pre) <= Len(s) /\ SubSeq(s, 1, Len(pre)) = pre

L4EModels == {"lm1", "lm2"}

\* the dataset a model was trained on
ModelDataset == [m \in L4EModels |-> IF m = "lm1" THEN "d1" ELSE "d2"]

Schedulers == {"is1", "is2"}

\* the bulk import jobs import_historical_data.py can create
Jobs == {"j1", "j2", "j3"}

\* the model an inference scheduler runs
SchedulerModel == [s \in Schedulers |-> IF s = "is1" THEN "lm1" ELSE "lm2"]

VARIABLES
    \* the service
    assetStatus,        \* asset id -> "ACTIVE" | "DELETING" | "NONE"
    assetModelId,       \* asset id -> the asset model it was instantiated from
    assoc,              \* hierarchy associations <<parent, hierarchy, child>>
    modelStatus,        \* model id -> "ACTIVE" | "UPDATING" | "FAILED" | "NONE"
    modelHier,          \* model id -> its hierarchy definitions
    \* the process
    pc,                 \* position in cleanup
    run,                \* number of the invocation
    asset_id,           \* the resolved root asset id
    asset_ids_to_delete,
    asset_model_ids_to_delete,
    astack,             \* call stack of disassociate_all_assets
    mstack,             \* call stack of remove_model_properties
    unique_ids,         \* identifiers a deletion loop still has to visit
    cur,                \* identifier of the current loop iteration
    stage,              \* position inside the current loop iteration
    i,                  \* poll counter of _wait_for_assets_deletion
    next_token,         \* continuation token of a paged listing
    acc,                \* list a paged listing accumulates
    page,               \* entries of the current response still to process
    faults,             \* exceptions the service may still raise
    lastCall,           \* the service call issued by the last step
    compModels,         \* computation models the service holds
    timeSeries,         \* disassociated time series the service holds
    assoc0,             \* the associations when the invocation started
    modelHier0,         \* the hierarchy definitions before the first invocation
    calls,              \* <<operation, argument, line>> of the calls issued in this invocation
    waitFalse,          \* models whose _wait_for_assets_deletion returned False
    activeSeen,         \* models whose wait_for_model_update returned True
    \* remove_l4e_resources.py: the module-level lists and the equipment service
    dataset_names,
    model_names,
    inference_scheduler_names,
    datasets,           \* datasets the equipment service holds
    l4eModels,          \* models the equipment service holds
    schedulerStatus,    \* inference scheduler -> "RUNNING" | "STOPPING" | "STOPPED" | "NONE"
    \* train_model.py
    cmState,            \* state of the computation model the script creates
    action_definition_id,
    training_config,    \* anomaly_detection.training of the configuration file
    action_payload,     \* the keys of the payload of line 166
    \* import_historical_data.py
    job_ids,            \* the module-level list of created bulk import jobs
    active_job_ids,     \* the copy check_job_status works on
    jobStatus,          \* bulk import job -> its status at the service
    reported,           \* the <<job, status>> lines check_job_status printed
    \* create_l4e_model.py
    training_property_ids,
    prediction_definition_id,
    \* import_sitewise_models_assets.py
    transferJob         \* the metadata transfer job: its state and progress

svc == <<assetStatus, assetModelId, assoc, modelStatus, modelHier, compModels, timeSeries>>

lists == <<asset_ids_to_delete, asset_model_ids_to_delete>>

stacks == <<astack, mstack>>

loopv == <<unique_ids, cur, stage, i, next_token, acc, page>>

hist == <<assoc0, modelHier0, waitFalse, activeSeen>>

\* what the other scripts of the repository hold
trainv == <<cmState, action_definition_id, training_config, action_payload>>

importv == <<job_ids, active_job_ids, jobStatus, reported>>

predv == <<training_property_ids, prediction_definition_id>>

otherv == <<trainv, importv, predv, transferJob>>

l4ev == <<dataset_names, model_names, inference_scheduler_names, datasets, l4eModels,
          schedulerStatus, otherv>>

vars == <<assetStatus, assetModelId, assoc, modelStatus, modelHier, compModels, timeSeries,
          pc, run, asset_id, asset_ids_to_delete, asset_model_ids_to_delete,
          astack, mstack, unique_ids, cur, stage, i, next_token, acc, page,
          faults, lastCall, calls, assoc0, modelHier0, waitFalse, activeSeen,
          dataset_names, model_names, inference_scheduler_names, datasets, l4eModels,
          schedulerStatus, cmState, action_definition_id, training_config,
          action_payload, job_ids, active_job_ids, jobStatus, reported,
          training_property_ids, prediction_definition_id, transferJob>>

\* a service call: the operation, its argument, its outcome, the source line
Call(op, id, res, line) == [op |-> op, id |-> id, res |-> res, line |-> line]

NoCall == Call("none", None, "ok", 0)

\* the step issues service call c
Issue(c) == /\ lastCall' = c
            /\ calls' = calls \cup {<<c.op, c.id, c.line>>}

\* the step issues no service call
Quiet == /\ lastCall' = NoCall
         /\ calls' = calls

\* an injected exception uses up one unit of the fault budget
Fault(fail) == /\ fail => faults > 0
               /\ faults' = IF fail THEN faults - 1 ELSE faults


(***************************************************************************)
(* The service's view of the resources.                                    *)
(***************************************************************************)
Exists(a) == assetStatus[a] # "NONE"

ModelExists(m) == modelStatus[m] # "NONE"

\* only the root asset has hierarchies to walk
AssetHierarchies_OfRootOnly(a) ==
    IF a = ConfigAssetId THEN {hd[1] : hd \in modelHier[assetModelId[a]]} ELSE {}

\* assetHierarchies of describe_asset: the hierarchies of the asset's model
AssetHierarchies(a) == {hd[1] : hd \in modelHier[assetModelId[a]]}

\* the parent asset is not looked at: every child associated under h
AssociatedAssets_OfAnyParent(a, h) == Listing({c \in Assets : \E q \in Assets : <<q, h, c>> \in assoc})

\* the children associated with asset a under hierarchy h, as listed
AssociatedAssets(a, h) == Listing({c \in Assets : <<a, h, c>> \in assoc})

\* the assets instantiated from model m, as listed
AssetsOfModel(m) == Listing({a \in Assets : Exists(a) /\ assetModelId[a] = m})

\* childAssetModelId of each hierarchy definition, in the order of the definitions
ChildModelIds(hier) ==
    LET hs == Listing({hd[1] : hd \in hier})
    IN  [j \in 1..Len(hs) |-> (CHOOSE hd \in hier : hd[1] = hs[j])[2]]

(***************************************************************************)
(* The states cleanup can start from.  The root asset A (model M1) has C   *)
(* as a child; B is a child of A or stands alone; D is a child of B, a     *)
(* third child of A, or absent.  A child is instantiated from the model    *)
(* its parent's hierarchy refers to.                                       *)
(***************************************************************************)
Placements ==
    {pl \in [Assets -> {"A", "B", "alone", "absent", "root"}] :
        /\ pl["A"] = "root"
        /\ pl["B"] \in {"A", "alone"}
        /\ pl["C"] = "A"
        /\ pl["D"] \in {"A", "B", "absent"}
        /\ pl["B"] = "alone" => pl["D"] = "absent"}

ModelAt(pl, a) ==
    IF pl[a] = "root" THEN "M1"
    ELSE IF pl[a] = "B" THEN "M3"
    ELSE "M2"

HierarchyUnder(p) == IF p = "A" THEN "h1" ELSE "h2"

AssocOf(pl) == {<<pl[c], HierarchyUnder(pl[c]), c>> : c \in {x \in Assets : pl[x] \in Assets}}

\* a frame of disassociate_all_assets, entered at line 108
AssetFrame(id) == [id |-> id, st |-> "describe", hiers |-> <<>>, page |-> <<>>,
                   children |-> <<>>, k |-> 1]

\* a frame of remove_model_properties, entered at line 151
\* (model_details: the assetModelHierarchies of the response of line 152)
ModelFrame(id) == [id |-> id, st |-> "describe", model_details |-> {},
                   children |-> <<>>, k |-> 1, state |-> "UNKNOWN"]

\* train_model.py is not run
TrainIdle ==
    /\ cmState = "NONE"
    /\ action_definition_id = None
    /\ training_config = [evaluation |-> FALSE, labels |-> FALSE]
    /\ action_payload = {}

\* import_historical_data.py is not run
ImportIdle ==
    /\ job_ids = <<>> /\ active_job_ids = <<>>
    /\ jobStatus = [j \in Jobs |-> "NONE"]
    /\ reported = <<>>

\* create_l4e_model.py is not run
PredictionIdle ==
    /\ training_property_ids = <<>>
    /\ prediction_definition_id = None

\* the other scripts are not run: nothing of theirs exists
OtherScriptsIdle ==
    /\ TrainIdle
    /\ ImportIdle
    /\ PredictionIdle
    /\ transferJob = [state |-> "NONE", succeeded |-> 0]

\* ResourceCleaner.__init__ and the locals of a fresh process
FreshProcess ==
    /\ pc = "kill"
    /\ asset_id = None
    /\ asset_ids_to_delete = <<>>
    /\ asset_model_ids_to_delete = <<>>
    /\ astack = <<>>
    /\ mstack = <<>>
    /\ unique_ids = EmptyBag
    /\ cur = None
    /\ stage = "pick"
    /\ i = 0
    /\ next_token = 0
    /\ acc = <<>>
    /\ page = <<>>
    /\ lastCall = NoCall
    /\ calls = {}
    /\ waitFalse = {}
    /\ activeSeen = {}

\* the script started is src/clean-up/remove_resources.py
InitRemoveResources ==
    /\ \E pl \in Placements :
          /\ assetStatus = [a \in Assets |-> IF pl[a] = "absent" THEN "NONE" ELSE "ACTIVE"]
          /\ assetModelId = [a \in Assets |-> ModelAt(pl, a)]
          /\ assoc = AssocOf(pl)
          /\ assoc0 = AssocOf(pl)
    /\ modelStatus = [m \in Models |-> "ACTIVE"]
    /\ modelHier = InitialHierarchies
    /\ modelHier0 = InitialHierarchies
    /\ compModels = {"K1", "K2"}
    /\ timeSeries = Aliases
    /\ run = 1
    /\ faults = MaxFaults
    /\ FreshProcess
    /\ dataset_names = <<>> /\ model_names = <<>> /\ inference_scheduler_names = <<>>
    /\ datasets = {} /\ l4eModels = {}
    /\ schedulerStatus = [s \in Schedulers |-> "NONE"]
    /\ OtherScriptsIdle

\* the script started is src/cleanup/remove_l4e_resources.py (lines 33-38):
\* the asset exists or not; dataset d2, its model and its scheduler exist or
\* not; a scheduler is running or stopped
InitL4E ==
    /\ \E root \in {"ACTIVE", "NONE"} :
          assetStatus = [a \in Assets |-> IF a = "A" THEN root ELSE "NONE"]
    /\ assetModelId = [a \in Assets |-> "M1"]
    /\ assoc = {} /\ assoc0 = {}
    /\ modelStatus = [m \in Models |-> "ACTIVE"]
    /\ modelHier = InitialHierarchies
    /\ modelHier0 = InitialHierarchies
    /\ compModels = {} /\ timeSeries = {}
    /\ run = 1
    /\ faults = MaxFaults
    /\ pc = "l4e_resolve"
    /\ asset_id = None
    /\ asset_ids_to_delete = <<>> /\ asset_model_ids_to_delete = <<>>
    /\ astack = <<>> /\ mstack = <<>>
    /\ unique_ids = EmptyBag /\ cur = None /\ stage = "pick" /\ i = 0
    /\ next_token = 0 /\ acc = <<>> /\ page = <<>>
    /\ lastCall = NoCall /\ calls = {} /\ waitFalse = {} /\ activeSeen = {}
    /\ dataset_names = <<>> /\ model_names = <<>> /\ inference_scheduler_names = <<>>
    /\ OtherScriptsIdle
    /\ \E second \in BOOLEAN :
          /\ datasets = IF second THEN Datasets ELSE Datasets \ {"d2"}
          /\ l4eModels = IF second THEN L4EModels ELSE {"lm1"}
          /\ \E st \in [Schedulers -> {"RUNNING", "STOPPED"}] :
                schedulerStatus = [s \in Schedulers |->
                                     IF s = "is2" /\ ~second THEN "NONE" ELSE st[s]]

Init == InitRemoveResources \/ InitL4E

(***************************************************************************)
(* cleanup, lines 357-367: kill the simulator, resolve the root asset id.  *)
(***************************************************************************)
\* the data streams are removed right after the walk, before everything else
AfterPhase_DataStreamsFirst(p) ==
    CASE p = "walk" -> "streams"
      [] p = "streams" -> "comp"
      [] p = "comp" -> "getmodel"
      [] p = "strip" -> "del_assets"
      [] p = "del_assets" -> "del_models"
      [] OTHER -> "done"

\* the computation models are removed at the very end
AfterPhase_ComputationModelsLast(p) ==
    CASE p = "walk" -> "getmodel"
      [] p = "strip" -> "del_assets"
      [] p = "del_assets" -> "del_models"
      [] p = "del_models" -> "streams"
      [] p = "streams" -> "comp"
      [] OTHER -> "done"

\* lines 366-385: the phase cleanup runs when phase p is over
AfterPhase(p) ==
    CASE p = "walk" -> "comp"
      [] p = "comp" -> "getmodel"
      [] p = "strip" -> "del_assets"
      [] p = "del_assets" -> "del_models"
      [] p = "del_models" -> "streams"
      [] OTHER -> "done"

\* kill_simulation_process (lines 332-347) catches every exception
KillSimulationProcess ==
    /\ pc = "kill"
    /\ pc' = "resolve"
    /\ UNCHANGED <<svc, run, asset_id, lists, stacks, loopv, faults, lastCall, calls, hist>>
    /\ UNCHANGED l4ev

\* the failed lookup is logged and cleanup goes on with its next phase
RootNotResolved_GoesOn ==
    /\ pc' = "comp"
    /\ UNCHANGED <<asset_id, asset_ids_to_delete, astack>>

\* the exception of line 351 leaves _get_asset_id_from_external_id and
\* cleanup (line 364): nothing after line 364 runs
RootNotResolved ==
    /\ pc' = "raised"
    /\ UNCHANGED <<asset_id, asset_ids_to_delete, astack>>

\* _get_asset_id_from_external_id (lines 349-355) calls the client directly:
\* a not-found or any other exception leaves cleanup (line 364)
GetAssetIdFromExternalId(fail) ==
    /\ pc = "resolve"
    /\ Fault(fail)
    /\ IF fail \/ ~Exists("A")
       THEN /\ RootNotResolved
            /\ Issue(Call("describe_asset", "A", IF fail THEN "error" ELSE "notfound", 351))
       ELSE /\ pc' = "walk"
            /\ Issue(Call("describe_asset", "A", "ok", 351))
            /\ asset_id' = "A"
            \* line 367 enters disassociate_all_assets, line 108 records the id
            /\ asset_ids_to_delete' = Append(asset_ids_to_delete, "A")
            /\ astack' = <<AssetFrame("A")>>
    /\ UNCHANGED <<svc, run, asset_model_ids_to_delete, mstack, loopv, hist>>
    /\ UNCHANGED l4ev

(***************************************************************************)
(* disassociate_all_assets, lines 106-147.  The top frame of astack is the *)
(* running call.                                                           *)
(***************************************************************************)
ATop == astack[Len(astack)]

ASetTop(f) == [astack EXCEPT ![Len(astack)] = f]

\* the frame after one hierarchy of the loop of line 119 is finished
NextHierarchy(f) ==
    LET rest == Tail(f.hiers)
    IN  [f EXCEPT !.hiers = rest, !.page = <<>>,
                  !.st = IF rest = <<>> THEN "recurse" ELSE "list"]

\* the call returns (lines 113, 144 or 147): back in the caller
WalkReturn ==
    /\ astack' = SubSeq(astack, 1, Len(astack) - 1)
    /\ pc' = IF Len(astack) = 1 THEN AfterPhase("walk") ELSE pc

\* the None of the wrapper is taken for the details of the asset
NoAssetDetails_NoneNotTested(a, fail) ==
    fail

\* lines 112-113 and 146: the wrapper raised, or returned None for an asset
\* that is not found
NoAssetDetails(a, fail) ==
    fail \/ ~Exists(a)

\* line 111: describe_asset through the wrapper of lines 69-78
WalkDescribe(fail) ==
    /\ pc = "walk" /\ astack # <<>> /\ ATop.st = "describe"
    /\ Fault(fail)
    /\ LET a == ATop.id
           hs == Listing(AssetHierarchies(a))
       IN  /\ Issue(Call("describe_asset", a,
                         IF fail THEN "error" ELSE IF Exists(a) THEN "ok" ELSE "notfound",
                         111))
           /\ IF NoAssetDetails(a, fail)
              THEN \* None (line 113) or the exception caught at line 146
                   WalkReturn
              ELSE /\ astack' = ASetTop([ATop EXCEPT !.hiers = hs,
                                           !.st = IF hs = <<>> THEN "recurse" ELSE "list"])
                   /\ pc' = pc
    /\ UNCHANGED <<svc, run, asset_id, lists, mstack, loopv, hist>>
    /\ UNCHANGED l4ev

\* line 123: list_associated_assets, first page only (nextToken is not read)
WalkList(fail) ==
    /\ pc = "walk" /\ astack # <<>> /\ ATop.st = "list"
    /\ Fault(fail)
    /\ LET a == ATop.id
           h == Head(ATop.hiers)
           listed == FirstPage(AssociatedAssets(a, h))
       IN  IF fail \/ ~Exists(a)
           THEN \* caught at line 139: the next hierarchy
                /\ astack' = ASetTop(NextHierarchy(ATop))
                /\ Issue(Call("list_associated_assets", a, "error", 123))
           ELSE /\ astack' = ASetTop(IF listed = <<>> THEN NextHierarchy(ATop)
                                     ELSE [ATop EXCEPT !.page = listed, !.st = "disassociate"])
                /\ Issue(Call("list_associated_assets", a, "ok", 123))
    /\ UNCHANGED <<svc, pc, run, asset_id, lists, mstack, loopv, hist>>
    /\ UNCHANGED l4ev

\* the child is kept for the recursion and the call of line 133 is not made
Disassociated_NotIssued(a, h, c) ==
    assoc

\* lines 133-137: the associations after disassociate_assets(a, h, c) succeeded
Disassociated(a, h, c) ==
    assoc \ {<<a, h, c>>}

\* lines 128-137: the child is appended to child_assets, then disassociated
WalkDisassociate(fail) ==
    /\ pc = "walk" /\ astack # <<>> /\ ATop.st = "disassociate"
    /\ Fault(fail)
    /\ LET a == ATop.id
           h == Head(ATop.hiers)
           c == Head(ATop.page)
           f == [ATop EXCEPT !.children = Append(@, c), !.page = Tail(@)]
       IN  IF fail \/ <<a, h, c>> \notin assoc
           THEN \* caught at line 139: the rest of the page is dropped
                /\ astack' = ASetTop(NextHierarchy(f))
                /\ assoc' = assoc
                /\ Issue(Call("disassociate_assets", c, "error", 133))
           ELSE /\ astack' = ASetTop(IF f.page = <<>> THEN NextHierarchy(f) ELSE f)
                /\ assoc' = Disassociated(a, h, c)
                /\ Issue(Call("disassociate_assets", c, "ok", 133))
    /\ UNCHANGED <<assetStatus, assetModelId, modelStatus, modelHier, compModels, timeSeries,
                   pc, run, asset_id, lists, mstack, loopv, hist>>
    /\ UNCHANGED l4ev

\* lines 143-144: the recursive call on the next child, which line 108 records
WalkRecurse ==
    /\ pc = "walk" /\ astack # <<>> /\ ATop.st = "recurse"
    /\ ATop.k <= Len(ATop.children)
    /\ LET c == ATop.children[ATop.k]
       IN  /\ astack' = Append(ASetTop([ATop EXCEPT !.k = @ + 1]), AssetFrame(c))
           /\ asset_ids_to_delete' = Append(asset_ids_to_delete, c)
    /\ Quiet
    /\ UNCHANGED <<svc, pc, run, asset_id, asset_model_ids_to_delete, mstack,
                   loopv, faults, hist>>
    /\ UNCHANGED l4ev

\* the loop of line 143 is over: the call returns
WalkDone ==
    /\ pc = "walk" /\ astack # <<>> /\ ATop.st = "recurse"
    /\ ATop.k > Len(ATop.children)
    /\ WalkReturn
    /\ Quiet
    /\ UNCHANGED <<svc, run, asset_id, lists, mstack, loopv, faults, hist>>
    /\ UNCHANGED l4ev

(***************************************************************************)
(* delete_computation_models, lines 244-292.                               *)
(***************************************************************************)
\* the phase is over (line 251, the end of the loop or the handler of line 257)
CompReturn ==
    /\ pc' = AfterPhase("comp")
    /\ stage' = "pick" /\ next_token' = 0 /\ acc' = <<>> /\ page' = <<>>

\* lines 266-270: one page of list_computation_models
CompList(fail) ==
    /\ pc = "comp" /\ stage = "pick"
    /\ Fault(fail)
    /\ LET all == Listing(compModels)
           p == PageAt(all, next_token)
           t == TokenAfter(all, next_token)
       IN  IF fail
           THEN /\ CompReturn
                /\ Issue(Call("list_computation_models", None, "error", 270))
           ELSE /\ Issue(Call("list_computation_models", None, "ok", 270))
                /\ IF p = <<>> /\ t = 0 /\ acc = <<>>
                   THEN CompReturn
                   ELSE /\ pc' = pc
                        /\ page' = p
                        /\ next_token' = t
                        /\ acc' = acc
                        /\ stage' = IF p # <<>> THEN "describe"
                                    ELSE IF t # 0 THEN "pick" ELSE "delete"
    /\ UNCHANGED <<svc, run, asset_id, lists, stacks, unique_ids, cur, i, hist>>
    /\ UNCHANGED l4ev

\* the asset of the model is not looked at
BoundToAsset_AnyAsset(k) ==
    TRUE

\* lines 275-277: the asset id the result property resolves to (lines 289-292)
\* is the asset id cleanup works on
BoundToAsset(k) ==
    CompAsset[k] = ConfigAssetId

\* lines 272-280: describe_computation_model for one summary of the page
CompDescribe(fail) ==
    /\ pc = "comp" /\ stage = "describe"
    /\ Fault(fail)
    /\ LET k == Head(page)
           rest == Tail(page)
           found == IF ~fail /\ k \in compModels /\ BoundToAsset(k)
                    THEN Append(acc, k) ELSE acc
       IN  /\ Issue(Call("describe_computation_model", k,
                               IF fail \/ k \notin compModels THEN "error" ELSE "ok", 290))
           /\ page' = rest
           /\ IF rest # <<>> \/ next_token # 0 \/ found # <<>>
              THEN /\ acc' = found
                   /\ pc' = pc
                   /\ next_token' = next_token
                   /\ stage' = IF rest # <<>> THEN "describe"
                               ELSE IF next_token # 0 THEN "pick" ELSE "delete"
              ELSE /\ pc' = AfterPhase("comp")
                   /\ stage' = "pick" /\ next_token' = 0 /\ acc' = <<>>
    /\ UNCHANGED <<svc, run, asset_id, lists, stacks, unique_ids, cur, i, hist>>
    /\ UNCHANGED l4ev

\* lines 253-255: delete_computation_model for each model found
CompDelete(fail) ==
    /\ pc = "comp" /\ stage = "delete"
    /\ Fault(fail)
    /\ LET k == Head(acc)
       IN  IF fail \/ k \notin compModels
           THEN /\ CompReturn
                /\ compModels' = compModels
                /\ Issue(Call("delete_computation_model", k, "error", 254))
           ELSE /\ compModels' = compModels \ {k}
                /\ Issue(Call("delete_computation_model", k, "ok", 254))
                /\ IF Tail(acc) = <<>>
                   THEN CompReturn
                   ELSE /\ acc' = Tail(acc)
                        /\ UNCHANGED <<pc, stage, next_token, page>>
    /\ UNCHANGED <<assetStatus, assetModelId, assoc, modelStatus, modelHier, timeSeries, run,
                   asset_id, lists, stacks, unique_ids, cur, i, hist>>
    /\ UNCHANGED l4ev

(***************************************************************************)
(* cleanup, lines 372-374, and remove_model_properties, lines 149-185.     *)
(* The top frame of mstack is the running call.                            *)
(***************************************************************************)
\* line 373: describe_asset(asset_id)["assetModelId"], outside any try block
GetRootModel(fail) ==
    /\ pc = "getmodel"
    /\ Fault(fail)
    /\ IF fail \/ ~Exists(asset_id)
       THEN \* the exception re-raised at line 78, or None["assetModelId"]
            /\ pc' = "raised"
            /\ mstack' = mstack
            /\ Issue(Call("describe_asset", asset_id,
                                IF fail THEN "error" ELSE "notfound", 373))
       ELSE /\ pc' = "strip"
            /\ mstack' = <<ModelFrame(assetModelId[asset_id])>>
            /\ Issue(Call("describe_asset", asset_id, "ok", 373))
    /\ UNCHANGED <<svc, run, asset_id, lists, astack, loopv, hist>>
    /\ UNCHANGED l4ev

MTop == mstack[Len(mstack)]

MSetTop(f) == [mstack EXCEPT ![Len(mstack)] = f]

\* every recorded entry is visited, as often as it was recorded
UniqueIds_EveryEntry(ids) ==
    [x \in Range(ids) |-> Cardinality({k \in DOMAIN ids : ids[k] = x})]

\* lines 189 and 206: unique_ids = list(set(ids)), each identifier once
UniqueIds(ids) ==
    SetToBag(Range(ids))

\* the call returns (line 154, the end of line 182, or the handler of line 184):
\* back in the caller; cleanup goes on to delete_assets (line 377)
RmpReturn ==
    /\ mstack' = SubSeq(mstack, 1, Len(mstack) - 1)
    /\ pc' = IF Len(mstack) = 1 THEN AfterPhase("strip") ELSE pc
    /\ unique_ids' = IF Len(mstack) = 1 THEN UniqueIds(asset_ids_to_delete) ELSE unique_ids

\* the model id is appended whether or not the list holds it
Track_Unconditional(m) ==
    Append(asset_model_ids_to_delete, m)

\* lines 165-166: the list after the model id is tracked for deletion
Track(m) ==
    IF m \in Range(asset_model_ids_to_delete)
    THEN asset_model_ids_to_delete
    ELSE Append(asset_model_ids_to_delete, m)

\* lines 152-166: describe the model, keep its child model ids, record it
RmpDescribe(fail) ==
    /\ pc = "strip" /\ mstack # <<>> /\ MTop.st = "describe"
    /\ Fault(fail)
    /\ LET m == MTop.id
       IN  IF fail \/ ~ModelExists(m)
           THEN /\ RmpReturn
                /\ asset_model_ids_to_delete' = asset_model_ids_to_delete
                /\ Issue(Call("describe_asset_model", m,
                                    IF fail THEN "error" ELSE "notfound", 152))
           ELSE /\ mstack' = MSetTop([MTop EXCEPT !.model_details = modelHier[m],
                                                  !.children = ChildModelIds(modelHier[m]),
                                                  !.st = "update"])
                /\ asset_model_ids_to_delete' = Track(m)
                /\ Issue(Call("describe_asset_model", m, "ok", 152))
                /\ UNCHANGED <<pc, unique_ids>>
    /\ UNCHANGED <<svc, run, asset_id, asset_ids_to_delete, astack, cur, stage, i,
                   next_token, acc, page, hist>>
    /\ UNCHANGED l4ev

\* lines 169-175: update_asset_model with empty properties and hierarchies
RmpUpdate(fail) ==
    /\ pc = "strip" /\ mstack # <<>> /\ MTop.st = "update"
    /\ Fault(fail)
    /\ LET m == MTop.id
       IN  IF fail \/ modelStatus[m] \notin {"ACTIVE", "FAILED"}
           THEN /\ RmpReturn
                /\ UNCHANGED modelStatus
                /\ Issue(Call("update_asset_model", m, "error", 169))
           ELSE /\ mstack' = MSetTop([MTop EXCEPT !.st = "wait"])
                /\ modelStatus' = [modelStatus EXCEPT ![m] = "UPDATING"]
                /\ Issue(Call("update_asset_model", m, "ok", 169))
                /\ UNCHANGED <<pc, unique_ids>>
    /\ UNCHANGED <<assetStatus, assetModelId, assoc, modelHier, compModels, timeSeries, run,
                   asset_id, lists, astack, cur, stage, i, next_token, acc, page,
                   hist>>
    /\ UNCHANGED l4ev

\* the poll saw ACTIVE with the update's children re-read from that response
UpdateActive_RereadsChildren(state) ==
    /\ mstack' = MSetTop([MTop EXCEPT !.st = "recurse", !.state = state,
                                      !.children = ChildModelIds(modelHier[MTop.id])])
    /\ UNCHANGED <<pc, unique_ids>>

\* line 100 returns True: line 178 logs and the loop of line 181 starts
UpdateActive(state) ==
    /\ mstack' = MSetTop([MTop EXCEPT !.st = "recurse", !.state = state])
    /\ UNCHANGED <<pc, unique_ids>>

\* the failure leaves remove_model_properties and cleanup with it
UpdateFailed_Escapes ==
    /\ pc' = "raised"
    /\ UNCHANGED <<mstack, unique_ids>>

\* the failure is taken for a finished update
UpdateFailed_Ignored ==
    /\ mstack' = MSetTop([MTop EXCEPT !.st = "recurse", !.state = "FAILED"])
    /\ UNCHANGED <<pc, unique_ids>>

\* line 102 raises; the handler of line 184 logs it and the call returns
UpdateFailed ==
    RmpReturn

\* a state that is not FAILED is taken for a finished update
UpdatePending_TakenForDone(state) ==
    /\ mstack' = MSetTop([MTop EXCEPT !.st = "recurse", !.state = state])
    /\ UNCHANGED <<pc, unique_ids>>

\* line 104: neither ACTIVE nor FAILED, sleep and poll again
UpdatePending(state) ==
    /\ mstack' = MSetTop([MTop EXCEPT !.state = state])
    /\ UNCHANGED <<pc, unique_ids>>

\* wait_for_model_update, lines 91-104: one poll of describe_asset_model
WaitForModelUpdate(fail) ==
    /\ pc = "strip" /\ mstack # <<>> /\ MTop.st = "wait"
    /\ Fault(fail)
    /\ LET m == MTop.id
           state == modelStatus[m]
       IN  IF fail \/ ~ModelExists(m)
           THEN \* the exception of line 89, or None.get at line 97: line 184
                /\ RmpReturn
                /\ Issue(Call("describe_asset_model", m,
                                    IF fail THEN "error" ELSE "notfound", 96))
           ELSE /\ Issue(Call("describe_asset_model", m, state, 96))
                /\ IF state = "ACTIVE"
                   THEN UpdateActive(state)
                   ELSE IF state = "FAILED"
                   THEN UpdateFailed
                   ELSE UpdatePending(state)
    /\ activeSeen' = IF ~fail /\ modelStatus[MTop.id] = "ACTIVE"
                     THEN activeSeen \cup {MTop.id} ELSE activeSeen
    /\ UNCHANGED <<svc, run, asset_id, lists, astack, cur, stage, i, next_token,
                   acc, page, assoc0, modelHier0, waitFalse>>
    /\ UNCHANGED l4ev

\* lines 181-182: the recursive call on the next child model
RmpRecurse ==
    /\ pc = "strip" /\ mstack # <<>> /\ MTop.st = "recurse"
    /\ MTop.k <= Len(MTop.children)
    /\ mstack' = Append(MSetTop([MTop EXCEPT !.k = @ + 1]), ModelFrame(MTop.children[MTop.k]))
    /\ Quiet
    /\ UNCHANGED <<svc, pc, run, asset_id, lists, astack, loopv, faults, hist>>
    /\ UNCHANGED l4ev

\* the loop of line 181 is over: the call returns
RmpDone ==
    /\ pc = "strip" /\ mstack # <<>> /\ MTop.st = "recurse"
    /\ MTop.k > Len(MTop.children)
    /\ RmpReturn
    /\ Quiet
    /\ UNCHANGED <<svc, run, asset_id, lists, astack, cur, stage, i, next_token,
                   acc, page, faults, hist>>
    /\ UNCHANGED l4ev

(***************************************************************************)
(* The service finishes what it accepted: a model update ends ACTIVE (the  *)
(* hierarchies are gone) or FAILED (the model is as it was); a deleted     *)
(* asset or model disappears.                                              *)
(***************************************************************************)
\* the update is reported ACTIVE but the hierarchy definitions stay
ServiceModelUpdated_HierarchiesStay(m, ok) ==
    /\ modelStatus[m] = "UPDATING"
    /\ modelStatus' = [modelStatus EXCEPT ![m] = IF ok THEN "ACTIVE" ELSE "FAILED"]
    /\ UNCHANGED <<assetStatus, assetModelId, assoc, modelHier, compModels, timeSeries, pc, run,
                   asset_id, lists, stacks, loopv, faults, lastCall, calls, hist>>
    /\ UNCHANGED l4ev

ServiceModelUpdated(m, ok) ==
    /\ modelStatus[m] = "UPDATING"
    /\ modelStatus' = [modelStatus EXCEPT ![m] = IF ok THEN "ACTIVE" ELSE "FAILED"]
    /\ modelHier' = [modelHier EXCEPT ![m] = IF ok THEN {} ELSE @]
    /\ UNCHANGED <<assetStatus, assetModelId, assoc, compModels, timeSeries, pc, run, asset_id,
                   lists, stacks, loopv, faults, lastCall, calls, hist>>
    /\ UNCHANGED l4ev

ServiceAssetDeleted(a) ==
    /\ assetStatus[a] = "DELETING"
    /\ assetStatus' = [assetStatus EXCEPT ![a] = "NONE"]
    /\ UNCHANGED <<assetModelId, assoc, modelStatus, modelHier, compModels, timeSeries, pc, run,
                   asset_id, lists, stacks, loopv, faults, lastCall, calls, hist>>
    /\ UNCHANGED l4ev

ServiceModelDeleted(m) ==
    /\ modelStatus[m] = "DELETING"
    /\ modelStatus' = [modelStatus EXCEPT ![m] = "NONE"]
    /\ modelHier' = [modelHier EXCEPT ![m] = {}]
    /\ UNCHANGED <<assetStatus, assetModelId, assoc, compModels, timeSeries, pc, run, asset_id,
                   lists, stacks, loopv, faults, lastCall, calls, hist>>
    /\ UNCHANGED l4ev

(***************************************************************************)
(* delete_assets, lines 187-202.  unique_ids = list(set(...)) is visited   *)
(* in the order of the set, which is any order: it is kept as the bag of   *)
(* the identifiers still to visit.                                         *)
(***************************************************************************)
\* _wait_for_assets_deletion, line 227
retries == 12

\* the loop of line 191 goes on without identifier a; after the last one
\* cleanup goes on to delete_asset_models (line 380, line 206)
DelAssetsContinue(a) ==
    LET rest == unique_ids (-) SetToBag({a})
        models == UniqueIds(asset_model_ids_to_delete)
    IN  /\ stage' = "pick"
        /\ cur' = None
        /\ unique_ids' = IF rest = EmptyBag THEN models ELSE rest
        /\ pc' = IF rest # EmptyBag THEN pc
                 ELSE IF models = EmptyBag THEN AfterPhase("del_models")
                 ELSE AfterPhase("del_assets")

\* the exception ends the loop: no other identifier is visited
DelAssetsFailed_LoopEnds(a) ==
    LET models == UniqueIds(asset_model_ids_to_delete)
    IN  /\ stage' = "pick"
        /\ cur' = None
        /\ unique_ids' = models
        /\ pc' = IF models = EmptyBag THEN AfterPhase("del_models")
                 ELSE AfterPhase("del_assets")

\* lines 201-202: the exception is logged inside the loop, which goes on
DelAssetsFailed(a) ==
    DelAssetsContinue(a)

\* the None of the wrapper is not tested
NoAssetInfo_NoneNotTested(a, fail) ==
    fail

\* lines 194-195 and 201: the wrapper raised, or returned None for an asset
\* that is not found
NoAssetInfo(a, fail) ==
    fail \/ ~Exists(a)

\* line 193: describe_asset through the wrapper
DelAssetsDescribe(a, fail) ==
    /\ pc = "del_assets" /\ stage = "pick" /\ BagIn(a, unique_ids)
    /\ Fault(fail)
    /\ Issue(Call("describe_asset", a,
                  IF fail THEN "error" ELSE IF Exists(a) THEN "ok" ELSE "notfound", 193))
    /\ IF NoAssetInfo(a, fail)
       THEN \* line 195 continues, or line 201 catches
            IF fail THEN DelAssetsFailed(a) ELSE DelAssetsContinue(a)
       ELSE /\ stage' = "delete"
            /\ cur' = a
            /\ UNCHANGED <<pc, unique_ids>>
    /\ UNCHANGED <<svc, run, asset_id, lists, stacks, i, next_token, acc, page, hist>>
    /\ UNCHANGED l4ev

\* the service refuses to delete an asset that is part of an association
\* or is already being deleted
DeleteAssetRefused(a) ==
    \/ assetStatus[a] # "ACTIVE"
    \/ \E e \in assoc : e[1] = a \/ e[3] = a

\* line 198: delete_asset
DelAssetsDelete(fail) ==
    /\ pc = "del_assets" /\ stage = "delete"
    /\ Fault(fail)
    /\ IF fail \/ DeleteAssetRefused(cur)
       THEN /\ assetStatus' = assetStatus
            /\ Issue(Call("delete_asset", cur, "error", 198))
            /\ DelAssetsFailed(cur)
       ELSE /\ assetStatus' = [assetStatus EXCEPT ![cur] = "DELETING"]
            /\ Issue(Call("delete_asset", cur, "ok", 198))
            /\ DelAssetsContinue(cur)
    /\ UNCHANGED <<assetModelId, assoc, modelStatus, modelHier, compModels, timeSeries, run,
                   asset_id, lists, stacks, i, next_token, acc, page, hist>>
    /\ UNCHANGED l4ev

(***************************************************************************)
(* delete_asset_models, lines 204-222, and _wait_for_assets_deletion,      *)
(* lines 224-242.                                                          *)
(***************************************************************************)
\* the loop of line 208 goes on without model m; after the last one cleanup
\* goes on to delete_data_streams (line 383)
DelModelsContinue(m) ==
    LET rest == unique_ids (-) SetToBag({m})
    IN  /\ stage' = "pick"
        /\ cur' = None
        /\ i' = 0
        /\ unique_ids' = rest
        /\ pc' = IF rest = EmptyBag THEN AfterPhase("del_models") ELSE pc

\* line 210: describe_asset_model through the wrapper
DelModelsDescribe(m, fail) ==
    /\ pc = "del_models" /\ stage = "pick" /\ BagIn(m, unique_ids)
    /\ Fault(fail)
    /\ IF fail \/ ~ModelExists(m)
       THEN /\ DelModelsContinue(m)
            /\ Issue(Call("describe_asset_model", m,
                                IF fail THEN "error" ELSE "notfound", 210))
       ELSE /\ stage' = "wait"
            /\ cur' = m
            /\ i' = 0
            /\ Issue(Call("describe_asset_model", m, "ok", 210))
            /\ UNCHANGED <<pc, unique_ids>>
    /\ UNCHANGED <<svc, run, asset_id, lists, stacks, next_token, acc, page, hist>>
    /\ UNCHANGED l4ev

\* the assets delete_assets issued delete_asset for no longer count
ExistingRecorded_DeletedDropped(m) ==
    {a \in Range(FirstPage(AssetsOfModel(m))) :
        a \in Range(asset_ids_to_delete) /\ <<"delete_asset", a, 198>> \notin calls}

\* lines 231-233: the listed assets of the model that are in the recorded set
ExistingRecorded(m) ==
    {a \in Range(FirstPage(AssetsOfModel(m))) : a \in Range(asset_ids_to_delete)}

\* the False of _wait_for_assets_deletion does not keep line 218 from running
WaitReturnedFalse_StillDeletes ==
    /\ waitFalse' = waitFalse \cup {cur}
    /\ stage' = "delete"
    /\ UNCHANGED <<pc, unique_ids, cur, i>>

\* lines 240 and 242 return False: line 217 skips the deletion and the loop
\* of line 208 goes on
WaitReturnedFalse ==
    /\ waitFalse' = waitFalse \cup {cur}
    /\ DelModelsContinue(cur)

\* an empty first listing is not believed: the model is listed once more
WaitReturnedTrue_AfterSecondPoll ==
    /\ stage' = IF i = 0 THEN stage ELSE "delete"
    /\ i' = IF i = 0 THEN i + 1 ELSE i
    /\ UNCHANGED <<pc, unique_ids, cur, waitFalse>>

\* line 236 returns True: line 218 is next
WaitReturnedTrue ==
    /\ stage' = "delete"
    /\ UNCHANGED <<pc, unique_ids, cur, i, waitFalse>>

\* the loop runs one round too many
RetriesExhausted_OffByOne ==
    i >= retries

\* line 229: range(retries) has no value after i
RetriesExhausted ==
    i + 1 >= retries

\* one round of the loop of line 229: list_assets, first page only
WaitForAssetsDeletion(fail) ==
    /\ pc = "del_models" /\ stage = "wait"
    /\ Fault(fail)
    /\ IF fail \/ ~ModelExists(cur)
       THEN /\ WaitReturnedFalse
            /\ Issue(Call("list_assets", cur, "error", 231))
       ELSE /\ Issue(Call("list_assets", cur, "ok", 231))
            /\ IF ExistingRecorded(cur) = {}
               THEN WaitReturnedTrue
               ELSE IF ~RetriesExhausted
               THEN \* line 238: sleep and list again
                    /\ i' = i + 1
                    /\ UNCHANGED <<pc, unique_ids, cur, stage, waitFalse>>
               ELSE WaitReturnedFalse
    /\ UNCHANGED <<svc, run, asset_id, lists, stacks, next_token, acc, page,
                   assoc0, modelHier0, activeSeen>>
    /\ UNCHANGED l4ev

\* the service refuses to delete a model that assets or other models still
\* use, or that is being changed
DeleteModelRefused(m) ==
    \/ modelStatus[m] \notin {"ACTIVE", "FAILED"}
    \/ \E a \in Assets : Exists(a) /\ assetModelId[a] = m
    \/ \E p \in Models \ {m} : ModelExists(p) /\ \E hd \in modelHier[p] : hd[2] = m

\* line 218: delete_asset_model
DelModelsDelete(fail) ==
    /\ pc = "del_models" /\ stage = "delete"
    /\ Fault(fail)
    /\ IF fail \/ DeleteModelRefused(cur)
       THEN /\ modelStatus' = modelStatus
            /\ Issue(Call("delete_asset_model", cur, "error", 218))
       ELSE /\ modelStatus' = [modelStatus EXCEPT ![cur] = "DELETING"]
            /\ Issue(Call("delete_asset_model", cur, "ok", 218))
    /\ DelModelsContinue(cur)
    /\ UNCHANGED <<assetStatus, assetModelId, assoc, modelHier, compModels, timeSeries, run,
                   asset_id, lists, stacks, next_token, acc, page, hist>>
    /\ UNCHANGED l4ev

(***************************************************************************)
(* delete_data_streams, lines 294-330.                                     *)
(***************************************************************************)
\* the phase is over: cleanup logs its completion (line 385)
StreamsReturn ==
    /\ pc' = AfterPhase("streams")
    /\ stage' = "pick" /\ next_token' = 0 /\ acc' = <<>>

\* lines 319-324: one page of list_time_series
StreamsList(fail) ==
    /\ pc = "streams" /\ stage = "pick"
    /\ Fault(fail)
    /\ LET all == Listing(timeSeries)
           got == acc \o PageAt(all, next_token)
           t == TokenAfter(all, next_token)
       IN  IF fail
           THEN /\ StreamsReturn
                /\ Issue(Call("list_time_series", None, "error", 323))
           ELSE /\ Issue(Call("list_time_series", None, "ok", 323))
                /\ IF t = 0 /\ got = <<>>
                   THEN StreamsReturn
                   ELSE /\ acc' = got
                        /\ next_token' = t
                        /\ stage' = IF t # 0 THEN "pick" ELSE "delete"
                        /\ pc' = pc
    /\ UNCHANGED <<svc, run, asset_id, lists, stacks, unique_ids, cur, i, page, hist>>
    /\ UNCHANGED l4ev

\* lines 300-303: the next alias; delete_time_series if it holds the prefix
StreamsDelete(fail) ==
    /\ pc = "streams" /\ stage = "delete"
    /\ Fault(fail)
    /\ LET t == Head(acc)
           hit == Contains(DATA_STREAM_PREFIX, AliasText[t])
       IN  /\ fail => hit
           /\ IF hit
              THEN Issue(Call("delete_time_series", t,
                                    IF fail \/ t \notin timeSeries THEN "error" ELSE "ok", 302))
              ELSE Quiet
           /\ timeSeries' = IF hit /\ ~fail THEN timeSeries \ {t} ELSE timeSeries
           /\ IF (hit /\ (fail \/ t \notin timeSeries)) \/ Tail(acc) = <<>>
              THEN StreamsReturn
              ELSE /\ acc' = Tail(acc)
                   /\ UNCHANGED <<pc, stage, next_token>>
    /\ UNCHANGED <<assetStatus, assetModelId, assoc, modelStatus, modelHier, compModels, run,
                   asset_id, lists, stacks, unique_ids, cur, i, page, hist>>
    /\ UNCHANGED l4ev

(***************************************************************************)
(* src/cleanup/remove_l4e_resources.py, lines 43-154.  No call of the      *)
(* script is inside a try block, except the lookup of line 46 for          *)
(* ResourceNotFoundException: any other exception ends the script.         *)
(***************************************************************************)
\* what the script never touches
rrv == <<svc, run, lists, stacks, unique_ids, cur, acc, page, hist, otherv>>

\* the models are deleted before their inference schedulers
L4EPhases_ModelsBeforeSchedulers ==
    <<"l4e_models", "l4e_schedulers", "l4e_stop", "l4e_del_models",
      "l4e_del_schedulers", "l4e_del_datasets">>

\* the loops of lines 138-150, in the order they run
L4EPhases == <<"l4e_models", "l4e_schedulers", "l4e_stop", "l4e_del_schedulers",
               "l4e_del_models", "l4e_del_datasets">>

\* the list the loop of a phase runs over
L4EPhaseList(p, dn, mn, sn) ==
    CASE p \in {"l4e_models", "l4e_del_datasets"} -> dn
      [] p \in {"l4e_schedulers", "l4e_del_models"} -> mn
      [] OTHER -> sn

\* the first loop from the k-th on that has an element to visit; line 154 if none
L4EFrom(k, dn, mn, sn) ==
    LET js == {j \in k..Len(L4EPhases) : L4EPhaseList(L4EPhases[j], dn, mn, sn) # <<>>}
    IN  IF js = {} THEN "l4e_done"
        ELSE L4EPhases[CHOOSE j \in js : \A x \in js : j <= x]

\* the loop of phase k goes on with its next element, or the next loop starts
L4EAdvance(k, dn, mn, sn) ==
    IF i < Len(L4EPhaseList(L4EPhases[k], dn, mn, sn))
    THEN /\ i' = i + 1
         /\ pc' = pc
    ELSE /\ i' = 1
         /\ pc' = L4EFrom(k + 1, dn, mn, sn)

\* internal_from_external_asset_id, lines 43-50, and the branch of line 136
InternalFromExternalAssetId(fail) ==
    /\ pc = "l4e_resolve"
    /\ Fault(fail)
    /\ IF fail
       THEN /\ pc' = "l4e_raised"
            /\ asset_id' = asset_id
            /\ Issue(Call("describe_asset", "A", "error", 46))
       ELSE IF ~Exists("A")
       THEN \* line 49 prints, asset_id stays None: lines 152 and 154
            /\ pc' = "l4e_done"
            /\ asset_id' = None
            /\ Issue(Call("describe_asset", "A", "notfound", 46))
       ELSE /\ pc' = "l4e_datasets"
            /\ asset_id' = "A"
            /\ Issue(Call("describe_asset", "A", "ok", 46))
    /\ UNCHANGED <<rrv, l4ev, stage, i, next_token>>

\* dataset_names_from_asset, lines 52-68: one page of list_datasets
DatasetNamesFromAsset(fail) ==
    /\ pc = "l4e_datasets"
    /\ Fault(fail)
    /\ LET all == Listing(datasets)
           p == PageAt(all, next_token)
           t == TokenAfter(all, next_token)
           dn == dataset_names \o SelectSeq(p, LAMBDA d : Contains(AssetIdText, DatasetText[d]))
       IN  IF fail
           THEN /\ pc' = "l4e_raised"
                /\ UNCHANGED <<dataset_names, next_token, i>>
                /\ Issue(Call("list_datasets", None, "error", 58))
           ELSE /\ dataset_names' = dn
                /\ next_token' = t
                /\ i' = 1
                /\ pc' = IF t # 0 THEN pc
                         ELSE L4EFrom(1, dn, model_names, inference_scheduler_names)
                /\ Issue(Call("list_datasets", None, "ok", 58))
    /\ UNCHANGED <<rrv, asset_id, stage, model_names, inference_scheduler_names,
                   datasets, l4eModels, schedulerStatus>>

\* model_names_from_dataset, lines 70-74: the first page of list_models
ModelNamesFromDataset(fail) ==
    /\ pc = "l4e_models"
    /\ Fault(fail)
    /\ LET d == dataset_names[i]
           listed == FirstPage(Listing({m \in l4eModels :
                        BeginsWith(DatasetText[d], DatasetText[ModelDataset[m]])}))
           mn == model_names \o listed
       IN  IF fail
           THEN /\ pc' = "l4e_raised"
                /\ UNCHANGED <<model_names, i>>
                /\ Issue(Call("list_models", d, "error", 71))
           ELSE /\ model_names' = mn
                /\ L4EAdvance(1, dataset_names, mn, inference_scheduler_names)
                /\ Issue(Call("list_models", d, "ok", 71))
    /\ UNCHANGED <<rrv, asset_id, stage, next_token, dataset_names,
                   inference_scheduler_names, datasets, l4eModels, schedulerStatus>>

\* inference_scheduler_names_from_model, lines 76-80: the first page of
\* list_inference_schedulers
InferenceSchedulerNamesFromModel(fail) ==
    /\ pc = "l4e_schedulers"
    /\ Fault(fail)
    /\ LET m == model_names[i]
           listed == FirstPage(Listing({s \in Schedulers :
                        schedulerStatus[s] # "NONE" /\ SchedulerModel[s] = m}))
           sn == inference_scheduler_names \o listed
       IN  IF fail
           THEN /\ pc' = "l4e_raised"
                /\ UNCHANGED <<inference_scheduler_names, i>>
                /\ Issue(Call("list_inference_schedulers", m, "error", 77))
           ELSE /\ inference_scheduler_names' = sn
                /\ L4EAdvance(2, dataset_names, model_names, sn)
                /\ Issue(Call("list_inference_schedulers", m, "ok", 77))
    /\ UNCHANGED <<rrv, asset_id, stage, next_token, dataset_names, model_names,
                   datasets, l4eModels, schedulerStatus>>

\* the wait of line 95 ends at the first answer, whatever the status
Stopped_AnyStatus(status) == TRUE

\* line 98: the wait of line 95 ends when the status is STOPPED
Stopped(status) == status = "STOPPED"

\* inference_scheduler_status, lines 82-84, called at line 92 (stage "pick")
\* and in the loop of line 95 (stage "poll")
InferenceSchedulerStatus(fail) ==
    /\ pc = "l4e_stop" /\ stage \in {"pick", "poll"}
    /\ Fault(fail)
    /\ LET s == inference_scheduler_names[i]
           status == schedulerStatus[s]
       IN  IF fail \/ status = "NONE"
           THEN /\ pc' = "l4e_raised"
                /\ UNCHANGED <<stage, i>>
                /\ Issue(Call("describe_inference_scheduler", s, "error", 83))
           ELSE /\ Issue(Call("describe_inference_scheduler", s, status, 83))
                /\ IF stage = "pick" /\ status = "RUNNING"
                   THEN \* line 94 is next
                        /\ stage' = "stop"
                        /\ UNCHANGED <<pc, i>>
                   ELSE IF stage = "poll" /\ ~Stopped(status)
                   THEN \* line 96: sleep and ask again
                        UNCHANGED <<pc, stage, i>>
                   ELSE \* the next scheduler of the loop of line 91
                        /\ stage' = "pick"
                        /\ L4EAdvance(3, dataset_names, model_names,
                                      inference_scheduler_names)
    /\ UNCHANGED <<rrv, l4ev, asset_id, next_token>>

\* stop_inference_scheduler, lines 86-87, called at line 94
StopInferenceScheduler(fail) ==
    /\ pc = "l4e_stop" /\ stage = "stop"
    /\ Fault(fail)
    /\ LET s == inference_scheduler_names[i]
       IN  IF fail \/ schedulerStatus[s] # "RUNNING"
           THEN /\ pc' = "l4e_raised"
                /\ UNCHANGED <<stage, schedulerStatus>>
                /\ Issue(Call("stop_inference_scheduler", s, "error", 87))
           ELSE /\ stage' = "poll"
                /\ pc' = pc
                /\ schedulerStatus' = [schedulerStatus EXCEPT ![s] = "STOPPING"]
                /\ Issue(Call("stop_inference_scheduler", s, "ok", 87))
    /\ UNCHANGED <<rrv, asset_id, i, next_token, dataset_names, model_names,
                   inference_scheduler_names, datasets, l4eModels>>

\* the service finishes stopping a scheduler
ServiceSchedulerStopped(s) ==
    /\ schedulerStatus[s] = "STOPPING"
    /\ schedulerStatus' = [schedulerStatus EXCEPT ![s] = "STOPPED"]
    /\ UNCHANGED <<rrv, pc, asset_id, stage, i, next_token, faults, lastCall, calls,
                   dataset_names, model_names, inference_scheduler_names, datasets,
                   l4eModels>>

\* delete_inference_schedulers, lines 102-108: the service refuses a
\* scheduler that is not stopped or does not exist
DeleteInferenceSchedulers(fail) ==
    /\ pc = "l4e_del_schedulers"
    /\ Fault(fail)
    /\ LET s == inference_scheduler_names[i]
       IN  IF fail \/ schedulerStatus[s] # "STOPPED"
           THEN /\ pc' = "l4e_raised"
                /\ UNCHANGED <<i, schedulerStatus>>
                /\ Issue(Call("delete_inference_scheduler", s, "error", 106))
           ELSE /\ schedulerStatus' = [schedulerStatus EXCEPT ![s] = "NONE"]
                /\ L4EAdvance(4, dataset_names, model_names, inference_scheduler_names)
                /\ Issue(Call("delete_inference_scheduler", s, "ok", 106))
    /\ UNCHANGED <<rrv, asset_id, stage, next_token, dataset_names, model_names,
                   inference_scheduler_names, datasets, l4eModels>>

\* delete_models, lines 110-116: the service refuses a model that has an
\* inference scheduler or does not exist
DeleteModels(fail) ==
    /\ pc = "l4e_del_models"
    /\ Fault(fail)
    /\ LET m == model_names[i]
       IN  IF \/ fail
              \/ m \notin l4eModels
              \/ \E s \in Schedulers : schedulerStatus[s] # "NONE" /\ SchedulerModel[s] = m
           THEN /\ pc' = "l4e_raised"
                /\ UNCHANGED <<i, l4eModels>>
                /\ Issue(Call("delete_model", m, "error", 114))
           ELSE /\ l4eModels' = l4eModels \ {m}
                /\ L4EAdvance(5, dataset_names, model_names, inference_scheduler_names)
                /\ Issue(Call("delete_model", m, "ok", 114))
    /\ UNCHANGED <<rrv, asset_id, stage, next_token, dataset_names, model_names,
                   inference_scheduler_names, datasets, schedulerStatus>>

\* delete_datasets, lines 118-124: the service refuses a dataset that a
\* model uses or that does not exist
DeleteDatasets(fail) ==
    /\ pc = "l4e_del_datasets"
    /\ Fault(fail)
    /\ LET d == dataset_names[i]
       IN  IF \/ fail
              \/ d \notin datasets
              \/ \E m \in l4eModels : ModelDataset[m] = d
           THEN /\ pc' = "l4e_raised"
                /\ UNCHANGED <<i, datasets>>
                /\ Issue(Call("delete_dataset", d, "error", 122))
           ELSE /\ datasets' = datasets \ {d}
                /\ L4EAdvance(6, dataset_names, model_names, inference_scheduler_names)
                /\ Issue(Call("delete_dataset", d, "ok", 122))
    /\ UNCHANGED <<rrv, asset_id, stage, next_token, dataset_names, model_names,
                   inference_scheduler_names, l4eModels, schedulerStatus>>

(***************************************************************************)
(* The operator runs the script again, in a new process.                   *)
(***************************************************************************)
Rerun ==
    /\ pc \in {"done", "raised"}
    /\ run < MaxRuns
    /\ run' = run + 1
    /\ pc' = "kill"
    /\ asset_id' = None
    /\ asset_ids_to_delete' = <<>>
    /\ asset_model_ids_to_delete' = <<>>
    /\ astack' = <<>>
    /\ mstack' = <<>>
    /\ unique_ids' = EmptyBag
    /\ cur' = None
    /\ stage' = "pick"
    /\ i' = 0
    /\ next_token' = 0
    /\ acc' = <<>>
    /\ page' = <<>>
    /\ lastCall' = NoCall
    /\ assoc0' = assoc
    /\ modelHier0' = modelHier0
    /\ calls' = {}
    /\ waitFalse' = {}
    /\ activeSeen' = {}
    /\ UNCHANGED <<svc, faults>>
    /\ UNCHANGED l4ev

Next ==
    \/ KillSimulationProcess
    \/ \E fail \in BOOLEAN : GetAssetIdFromExternalId(fail)
    \/ \E fail \in BOOLEAN : WalkDescribe(fail)
    \/ \E fail \in BOOLEAN : WalkList(fail)
    \/ \E fail \in BOOLEAN : WalkDisassociate(fail)
    \/ WalkRecurse
    \/ WalkDone
    \/ \E fail \in BOOLEAN : CompList(fail)
    \/ \E fail \in BOOLEAN : CompDescribe(fail)
    \/ \E fail \in BOOLEAN : CompDelete(fail)
    \/ \E fail \in BOOLEAN : GetRootModel(fail)
    \/ \E fail \in BOOLEAN : RmpDescribe(fail)
    \/ \E fail \in BOOLEAN : RmpUpdate(fail)
    \/ \E fail \in BOOLEAN : WaitForModelUpdate(fail)
    \/ RmpRecurse
    \/ RmpDone
    \/ \E a \in Assets, fail \in BOOLEAN : DelAssetsDescribe(a, fail)
    \/ \E fail \in BOOLEAN : DelAssetsDelete(fail)
    \/ \E m \in Models, fail \in BOOLEAN : DelModelsDescribe(m, fail)
    \/ \E fail \in BOOLEAN : WaitForAssetsDeletion(fail)
    \/ \E fail \in BOOLEAN : DelModelsDelete(fail)
    \/ \E fail \in BOOLEAN : StreamsList(fail)
    \/ \E fail \in BOOLEAN : StreamsDelete(fail)
    \/ \E m \in Models, ok \in BOOLEAN : ServiceModelUpdated(m, ok)
    \/ \E a \in Assets : ServiceAssetDeleted(a)
    \/ \E m \in Models : ServiceModelDeleted(m)
    \/ Rerun
    \/ \E fail \in BOOLEAN : InternalFromExternalAssetId(fail)
    \/ \E fail \in BOOLEAN : DatasetNamesFromAsset(fail)
    \/ \E fail \in BOOLEAN : ModelNamesFromDataset(fail)
    \/ \E fail \in BOOLEAN : InferenceSchedulerNamesFromModel(fail)
    \/ \E fail \in BOOLEAN : InferenceSchedulerStatus(fail)
    \/ \E fail \in BOOLEAN : StopInferenceScheduler(fail)
    \/ \E s \in Schedulers : ServiceSchedulerStopped(s)
    \/ \E fail \in BOOLEAN : DeleteInferenceSchedulers(fail)
    \/ \E fail \in BOOLEAN : DeleteModels(fail)
    \/ \E fail \in BOOLEAN : DeleteDatasets(fail)

Spec == Init /\ [][Next]_vars

(***************************************************************************)
(* disassociate_all_assets (line 367) on every graph of associations over  *)
(* three assets of one model: trees, diamonds, cycles, assets associated   *)
(* with themselves, a child associated under two hierarchies.              *)
(***************************************************************************)
WalkAssets == {"A", "B", "C"}

AssetGraphs ==
    SUBSET (({<<p, "h1", c>> : p \in WalkAssets, c \in WalkAssets} \cup {<<"A", "h2", "B">>})
               \ {<<"B", "h1", "B">>, <<"C", "h1", "C">>})

\* line 367 calls disassociate_all_assets for the root asset, line 108 records it
InitWalk ==
    /\ \E g \in AssetGraphs : assoc = g /\ assoc0 = g
    /\ assetStatus = [a \in Assets |-> IF a \in WalkAssets THEN "ACTIVE" ELSE "NONE"]
    /\ assetModelId = [a \in Assets |-> "M1"]
    /\ modelStatus = [m \in Models |-> "ACTIVE"]
    /\ modelHier = [m \in Models |-> IF m = "M1" THEN {<<"h1", "M1">>, <<"h2", "M1">>} ELSE {}]
    /\ modelHier0 = modelHier
    /\ compModels = {} /\ timeSeries = {}
    /\ run = 1
    /\ faults = MaxFaults
    /\ pc = "walk"
    /\ asset_id = "A"
    /\ asset_ids_to_delete = <<"A">> /\ asset_model_ids_to_delete = <<>>
    /\ astack = <<AssetFrame("A")>> /\ mstack = <<>>
    /\ unique_ids = EmptyBag /\ cur = None /\ stage = "pick" /\ i = 0
    /\ next_token = 0 /\ acc = <<>> /\ page = <<>>
    /\ lastCall = NoCall /\ calls = {} /\ waitFalse = {} /\ activeSeen = {}
    /\ dataset_names = <<>> /\ model_names = <<>> /\ inference_scheduler_names = <<>>
    /\ datasets = {} /\ l4eModels = {}
    /\ schedulerStatus = [s \in Schedulers |-> "NONE"]
    /\ OtherScriptsIdle

NextWalk ==
    \/ \E fail \in BOOLEAN : WalkDescribe(fail)
    \/ \E fail \in BOOLEAN : WalkList(fail)
    \/ \E fail \in BOOLEAN : WalkDisassociate(fail)
    \/ WalkRecurse
    \/ WalkDone

\* the script is one thread that runs each call to its end
SpecWalk == InitWalk /\ [][NextWalk]_vars /\ WF_vars(NextWalk)

(***************************************************************************)
(* cleanup of a root asset whose child is associated with it under two     *)
(* hierarchies, or lies on a cycle with it: the walk records an asset more *)
(* than once (line 143) before delete_assets runs (line 377).              *)
(***************************************************************************)
RecordedTwiceGraphs ==
    SUBSET {<<"A", "h1", "B">>, <<"A", "h2", "B">>, <<"B", "h1", "A">>, <<"B", "h1", "C">>}
        \ {{}}

InitRecordedTwice ==
    /\ \E g \in RecordedTwiceGraphs : assoc = g /\ assoc0 = g
    /\ assetStatus = [a \in Assets |-> IF a \in WalkAssets THEN "ACTIVE" ELSE "NONE"]
    /\ assetModelId = [a \in Assets |-> "M1"]
    /\ modelStatus = [m \in Models |-> "ACTIVE"]
    /\ modelHier = [m \in Models |-> IF m = "M1" THEN {<<"h1", "M1">>, <<"h2", "M1">>} ELSE {}]
    /\ modelHier0 = modelHier
    /\ compModels = {"K1", "K2"}
    /\ timeSeries = Aliases
    /\ run = 1
    /\ faults = MaxFaults
    /\ FreshProcess
    /\ dataset_names = <<>> /\ model_names = <<>> /\ inference_scheduler_names = <<>>
    /\ datasets = {} /\ l4eModels = {}
    /\ schedulerStatus = [s \in Schedulers |-> "NONE"]
    /\ OtherScriptsIdle

\* one invocation of cleanup (lines 345-389)
NextRecordedTwice ==
    \/ KillSimulationProcess
    \/ \E fail \in BOOLEAN : GetAssetIdFromExternalId(fail)
    \/ \E fail \in BOOLEAN : WalkDescribe(fail)
    \/ \E fail \in BOOLEAN : WalkList(fail)
    \/ \E fail \in BOOLEAN : WalkDisassociate(fail)
    \/ WalkRecurse
    \/ WalkDone
    \/ \E fail \in BOOLEAN : CompList(fail)
    \/ \E fail \in BOOLEAN : CompDescribe(fail)
    \/ \E fail \in BOOLEAN : CompDelete(fail)
    \/ \E fail \in BOOLEAN : GetRootModel(fail)
    \/ \E fail \in BOOLEAN : RmpDescribe(fail)
    \/ \E fail \in BOOLEAN : RmpUpdate(fail)
    \/ \E fail \in BOOLEAN : WaitForModelUpdate(fail)
    \/ RmpRecurse
    \/ RmpDone
    \/ \E a \in Assets, fail \in BOOLEAN : DelAssetsDescribe(a, fail)
    \/ \E fail \in BOOLEAN : DelAssetsDelete(fail)
    \/ \E m \in Models, fail \in BOOLEAN : DelModelsDescribe(m, fail)
    \/ \E fail \in BOOLEAN : WaitForAssetsDeletion(fail)
    \/ \E fail \in BOOLEAN : DelModelsDelete(fail)
    \/ \E fail \in BOOLEAN : StreamsList(fail)
    \/ \E fail \in BOOLEAN : StreamsDelete(fail)
    \/ \E m \in Models, ok \in BOOLEAN : ServiceModelUpdated(m, ok)
    \/ \E a \in Assets : ServiceAssetDeleted(a)
    \/ \E m \in Models : ServiceModelDeleted(m)

SpecRecordedTwice == InitRecordedTwice /\ [][NextRecordedTwice]_vars

(***************************************************************************)
(* cleanup up to delete_computation_models (lines 345-370) for a root      *)
(* asset with or without a child, on every set of computation models: the  *)
(* listing of line 270 has up to two pages.                                *)
(***************************************************************************)
InitComp ==
    /\ compModels \in SUBSET CompModels
    /\ \E g \in SUBSET {<<"A", "h1", "B">>} : assoc = g /\ assoc0 = g
    /\ assetStatus = [a \in Assets |-> IF a \in {"A", "B"} THEN "ACTIVE" ELSE "NONE"]
    /\ assetModelId = [a \in Assets |-> "M1"]
    /\ modelStatus = [m \in Models |-> "ACTIVE"]
    /\ modelHier = [m \in Models |-> IF m = "M1" THEN {<<"h1", "M1">>} ELSE {}]
    /\ modelHier0 = modelHier
    /\ timeSeries = {}
    /\ run = 1
    /\ faults = MaxFaults
    /\ FreshProcess
    /\ dataset_names = <<>> /\ model_names = <<>> /\ inference_scheduler_names = <<>>
    /\ datasets = {} /\ l4eModels = {}
    /\ schedulerStatus = [s \in Schedulers |-> "NONE"]
    /\ OtherScriptsIdle

NextComp ==
    \/ KillSimulationProcess
    \/ \E fail \in BOOLEAN : GetAssetIdFromExternalId(fail)
    \/ \E fail \in BOOLEAN : WalkDescribe(fail)
    \/ \E fail \in BOOLEAN : WalkList(fail)
    \/ \E fail \in BOOLEAN : WalkDisassociate(fail)
    \/ WalkRecurse
    \/ WalkDone
    \/ \E fail \in BOOLEAN : CompList(fail)
    \/ \E fail \in BOOLEAN : CompDescribe(fail)
    \/ \E fail \in BOOLEAN : CompDelete(fail)

SpecComp == InitComp /\ [][NextComp]_vars

(***************************************************************************)
(* remove_model_properties (line 374) on every graph of hierarchy          *)
(* definitions over the models: chains, diamonds, cycles, models that      *)
(* refer to themselves.                                                    *)
(***************************************************************************)
\* the hierarchy definition of a model that refers to child model c
HierarchyTo(c) ==
    CASE c = "M1" -> "h1"
      [] c = "M2" -> "h2"
      [] OTHER -> "h3"

ModelGraphs ==
    {[m \in Models |-> {<<HierarchyTo(c), c>> : c \in ch[m]}] : ch \in [Models -> SUBSET Models]}

\* line 374 calls remove_model_properties for the model of the root asset
InitStrip ==
    /\ \E g \in ModelGraphs : modelHier = g /\ modelHier0 = g
    /\ assetStatus = [a \in Assets |-> IF a = "A" THEN "ACTIVE" ELSE "NONE"]
    /\ assetModelId = [a \in Assets |-> "M1"]
    /\ assoc = {} /\ assoc0 = {}
    /\ modelStatus = [m \in Models |-> "ACTIVE"]
    /\ compModels = {} /\ timeSeries = {}
    /\ run = 1
    /\ faults = MaxFaults
    /\ pc = "strip"
    /\ asset_id = "A"
    /\ asset_ids_to_delete = <<"A">> /\ asset_model_ids_to_delete = <<>>
    /\ astack = <<>> /\ mstack = <<ModelFrame("M1")>>
    /\ unique_ids = EmptyBag /\ cur = None /\ stage = "pick" /\ i = 0
    /\ next_token = 0 /\ acc = <<>> /\ page = <<>>
    /\ lastCall = NoCall /\ calls = {} /\ waitFalse = {} /\ activeSeen = {}
    /\ dataset_names = <<>> /\ model_names = <<>> /\ inference_scheduler_names = <<>>
    /\ datasets = {} /\ l4eModels = {}
    /\ schedulerStatus = [s \in Schedulers |-> "NONE"]
    /\ OtherScriptsIdle

NextStrip ==
    \/ \E fail \in BOOLEAN : RmpDescribe(fail)
    \/ \E fail \in BOOLEAN : RmpUpdate(fail)
    \/ \E fail \in BOOLEAN : WaitForModelUpdate(fail)
    \/ RmpRecurse
    \/ RmpDone
    \/ \E m \in Models, ok \in BOOLEAN : ServiceModelUpdated(m, ok)

SpecStrip == InitStrip /\ [][NextStrip]_vars

\* the script is one thread that runs each call to its end, and the service
\* finishes every update it accepted
SpecStripFair == InitStrip /\ [][NextStrip]_vars /\ WF_vars(NextStrip)

\* the loop of lines 95-104 sleeps and polls again for as long as it runs: the
\* script takes its next poll; nothing is assumed of the service
SpecStripPolling ==
    InitStrip /\ [][NextStrip]_vars /\ WF_vars(\E fail \in BOOLEAN : WaitForModelUpdate(fail))

(***************************************************************************)
(* Properties.                                                             *)
(***************************************************************************)
\* the assets reachable from r through the associations E
RECURSIVE ReachFrom(_, _)
ReachFrom(S, E) ==
    LET T == S \cup {e[3] : e \in {x \in E : x[1] \in S}}
    IN  IF T = S THEN S ELSE ReachFrom(T, E)

NoDuplicates(s) == \A j, k \in 1..Len(s) : s[j] = s[k] => j = k

\* the calls of this invocation issued by operation op at the given line
Issued(op, line) == {c[2] : c \in {x \in calls : x[1] = op /\ x[3] = line}}

\* C1: delete_asset is never issued for an asset that still has a live child
\* association: every parent->child edge of the asset was removed before
C1_NoDeleteWithLiveChild ==
    lastCall.op = "delete_asset" => ~\E e \in assoc : e[1] = lastCall.id

\* C2: delete_asset_model(M) is never issued while an asset instantiated from
\* M still exists in the service
C2_NoModelDeleteWhileAssetsExist ==
    lastCall.op = "delete_asset_model" =>
        ~\E a \in Assets : Exists(a) /\ assetModelId[a] = lastCall.id

\* C3: when _wait_for_assets_deletion returns False for a model,
\* delete_asset_models issues no delete_asset_model for it, lets no exception
\* escape, and still visits every other model of the pending set
C3_SkipAfterWaitFalse ==
    /\ \A m \in waitFalse : m \notin Issued("delete_asset_model", 218)
    /\ pc = "raised" => lastCall.line \in {351, 373}
    /\ pc = "del_models" =>
          BagToSet(unique_ids) \cup Issued("describe_asset_model", 210) = Range(asset_model_ids_to_delete)
    /\ pc \in {"streams", "done"} =>
          Issued("describe_asset_model", 210) = Range(asset_model_ids_to_delete)

\* the retry budget ran out for a model and the loop goes on with the next one
C3_Witness ==
    /\ pc = "del_models" /\ stage = "pick" /\ unique_ids # EmptyBag
    /\ lastCall.op = "list_assets" /\ lastCall.res = "ok"
    /\ lastCall.id \in waitFalse

\* C4: on a tree whose calls all succeed, disassociate_all_assets records
\* every node reachable from the root exactly once
C4_WalkRecordsTree ==
    (run = 1 /\ faults = MaxFaults /\ pc = "comp" /\ lastCall = NoCall) =>
        /\ NoDuplicates(asset_ids_to_delete)
        /\ Range(asset_ids_to_delete) = ReachFrom({asset_id}, assoc0)

\* C5: when the walk recurses into a child, the association of the child with
\* its parent is already cut, and the parent has finished all its
\* disassociate calls
C5_CutBeforeRecursion ==
    \A j \in 1..(Len(astack) - 1) :
        /\ astack[j].st = "recurse"
        /\ ~\E e \in assoc : e[1] = astack[j].id /\ e[3] = astack[j + 1].id

\* C6: the child models remove_model_properties recurses into are the
\* childAssetModelIds of the describe response obtained before
\* update_asset_model was issued, never a value read after the update
C6_ChildrenCapturedBeforeUpdate ==
    \A j \in 1..Len(mstack) :
        /\ mstack[j].st \in {"wait", "recurse"} =>
              mstack[j].children = ChildModelIds(mstack[j].model_details)
        /\ j < Len(mstack) =>
              mstack[j + 1].id = mstack[j].children[mstack[j].k - 1]

\* the update has erased the hierarchies and the call is inside a child
C6_Witness ==
    /\ Len(mstack) >= 2
    /\ modelHier[mstack[1].id] = {}
    /\ mstack[1].children # <<>>

C8_FailedBranchStops ==
    /\ \A j \in 1..(Len(mstack) - 1) : mstack[j].state = "ACTIVE"
    /\ \A j \in 1..Len(mstack) : mstack[j].st = "recurse" => mstack[j].state = "ACTIVE"

\* the update of a model with child models failed and none of them was visited
C8_Witness ==
    /\ lastCall.line = 96 /\ lastCall.res = "FAILED"
    /\ modelHier[lastCall.id] # {}
    /\ \A hd \in modelHier[lastCall.id] : hd[2] \notin Issued("describe_asset_model", 152)

\* everything cleanup removes is gone
AllRemoved ==
    /\ \A a \in Assets : ~Exists(a)
    /\ \A m \in Models : ~ModelExists(m)
    /\ \A t \in timeSeries : ~Contains(DATA_STREAM_PREFIX, AliasText[t])

\* C9: a re-run for a root whose assets, models and data streams were all
\* removed by an earlier run completes without raising
C9_RerunCompletes ==
    (run > 1 /\ AllRemoved) => pc # "raised"

\* C10: once the root asset id is resolved, no failing call keeps cleanup
\* from its completion banner
C10_CompletesOnceResolved ==
    asset_id # None => pc # "raised"

\* the calls that change or remove a resource
Mutating ==
    {"disassociate_assets", "update_asset_model", "delete_computation_model", "delete_asset",
     "delete_asset_model", "delete_time_series", "stop_inference_scheduler",
     "delete_inference_scheduler", "delete_model", "delete_dataset"}

\* C11: when the lookup of the root asset by its external id does not resolve
\* (line 351 of remove_resources, line 46 of remove_l4e_resources), the script
\* is over and has issued no disassociate, update, stop or delete call
C11_UnresolvedRootShortCircuits ==
    ((\E c \in calls : c[1] = "describe_asset" /\ c[3] \in {351, 46}) /\ asset_id = None) =>
        /\ pc \in {"raised", "l4e_raised", "l4e_done"}
        /\ \A c \in calls : c[1] \notin Mutating

\* the root of an earlier cleanup is looked up again and is not found
C11_Witness ==
    /\ pc = "raised" /\ run > 1
    /\ lastCall.line = 351 /\ lastCall.res = "notfound"

\* the place of a mutating call of cleanup in the order of its phases
PhaseRank(op) ==
    CASE op = "disassociate_assets" -> 1
      [] op = "delete_computation_model" -> 2
      [] op = "update_asset_model" -> 3
      [] op = "delete_asset" -> 4
      [] op = "delete_asset_model" -> 5
      [] op = "delete_time_series" -> 6
      [] OTHER -> 0

\* C12: in one invocation of cleanup every disassociate call precedes every
\* delete_computation_model call, which precede every update_asset_model call,
\* then every delete_asset, then every delete_asset_model, then every
\* delete_time_series call: a call is never issued after a call of a later phase
C12_PhaseOrder ==
    PhaseRank(lastCall.op) > 0 =>
        \A c \in calls : PhaseRank(c[1]) <= PhaseRank(lastCall.op)

\* an invocation that issued a call of each of the six kinds is over
C12_Witness ==
    /\ pc = "done"
    /\ {PhaseRank(c[1]) : c \in calls} \ {0} = 1..6

\* C13 as stated: no delete_computation_model and no delete_time_series call
\* precedes a delete_asset or delete_asset_model call
C13_CompAndStreamsAfterDeletion ==
    lastCall.op \in {"delete_asset", "delete_asset_model"} =>
        \A c \in calls : c[1] \notin {"delete_computation_model", "delete_time_series"}

\* C13 as amended: the data streams are removed after the asset and
\* asset-model deletion phases and the computation models before them: no
\* delete_time_series call precedes, and no delete_computation_model call
\* follows, a delete_asset or delete_asset_model call
C13_CompBeforeStreamsAfterDeletion ==
    /\ lastCall.op \in {"delete_asset", "delete_asset_model"} =>
          \A c \in calls : c[1] # "delete_time_series"
    /\ lastCall.op = "delete_computation_model" =>
          \A c \in calls : c[1] \notin {"delete_asset", "delete_asset_model"}

\* a data stream is removed in an invocation that removed a computation
\* model, an asset and an asset model
C13_Witness ==
    /\ lastCall.op = "delete_time_series" /\ lastCall.res = "ok"
    /\ \A op \in {"delete_computation_model", "delete_asset", "delete_asset_model"} :
          \E c \in calls : c[1] = op

\* C14: a child model is processed (described at line 152, updated at line 169)
\* only by a call made from its parent's call after the parent's update was
\* issued and a poll of line 96 made after it returned ACTIVE; a model other
\* than the root's is processed only after a model that names it as a child
\* was updated and polled
C14_ChildAfterParentActive ==
    /\ \A j \in 1..(Len(mstack) - 1) :
          /\ mstack[j].state = "ACTIVE"
          /\ mstack[j].id \in Issued("update_asset_model", 169)
          /\ mstack[j].id \in Issued("describe_asset_model", 96)
    /\ \A m \in Issued("describe_asset_model", 152) \cup Issued("update_asset_model", 169) :
          \/ m = assetModelId[asset_id]
          \/ \E q \in Issued("update_asset_model", 169) \cap Issued("describe_asset_model", 96) :
                \E hd \in modelHier0[q] : hd[2] = m

\* M1 was updated and seen ACTIVE, and the update of its child M2 is issued
C14_Witness ==
    /\ Len(mstack) = 2 /\ mstack[1].id = "M1" /\ mstack[2].id = "M2"
    /\ lastCall.op = "update_asset_model" /\ lastCall.id = "M2" /\ lastCall.res = "ok"

\* the models reachable from the models S through the hierarchy definitions g
RECURSIVE ReachModels(_, _)
ReachModels(S, g) ==
    LET T == S \cup {hd[2] : hd \in UNION {g[m] : m \in S}}
    IN  IF T = S THEN S ELSE ReachModels(T, g)

\* C15: when no call failed and no update ended FAILED, after
\* remove_model_properties(root model) has returned asset_model_ids_to_delete
\* holds every model reachable from the root model through the hierarchy
\* definitions exactly once, and nothing else
C15_ModelsRecordedOnce ==
    (pc = "del_assets" /\ faults = MaxFaults /\ \A m \in Models : modelStatus[m] # "FAILED") =>
        /\ NoDuplicates(asset_model_ids_to_delete)
        /\ Range(asset_model_ids_to_delete) = ReachModels({"M1"}, modelHier0)

\* M3 was reached along two paths (from M1 and from M2) and the call is over
C15_Witness ==
    /\ pc = "del_assets" /\ faults = MaxFaults
    /\ \A m \in Models : modelStatus[m] = "ACTIVE"
    /\ modelHier0 = [m \in Models |-> CASE m = "M1" -> {<<"h2", "M2">>, <<"h3", "M3">>}
                                         [] m = "M2" -> {<<"h3", "M3">>}
                                         [] OTHER -> {}]
    /\ Len(asset_model_ids_to_delete) = 3

\* C16: delete_asset_model(M) is issued only for a model M whose emptying
\* update was issued (line 169) and was seen to reach ACTIVE (line 100) in
\* this invocation
C16_DeleteOnlyAfterUpdateActive ==
    lastCall.op = "delete_asset_model" =>
        /\ lastCall.id \in Issued("update_asset_model", 169)
        /\ lastCall.id \in activeSeen

\* the recorded assets a listing of the assets of model m shows
ShownRecorded(m) ==
    {a \in Assets : /\ Exists(a) /\ assetModelId[a] = m
                    /\ a \in Range(FirstPage(AssetsOfModel(m)))
                    /\ a \in Range(asset_ids_to_delete)}

\* C17: _wait_for_assets_deletion never raises and issues at most 12
\* list_assets calls; it returns True only on a poll that showed no asset of
\* the model from the pending-asset set, and False only when a list call
\* failed or the 12th poll still showed one
C17_WaitIsBounded ==
    [][(pc = "del_models" /\ stage = "wait") =>
          /\ i < 12
          /\ pc' # "raised"
          /\ i' # i => (i' = i + 1 /\ stage' = "wait") \/ (i' = 0 /\ stage' = "pick")
          /\ stage' = "delete" =>
                /\ ShownRecorded(cur) = {}
                /\ lastCall'.op = "list_assets" /\ lastCall'.res = "ok"
                /\ cur \notin waitFalse'
          /\ waitFalse' # waitFalse =>
                /\ waitFalse' = waitFalse \cup {cur}
                /\ stage' = "pick"
                /\ lastCall'.op = "list_assets"
                /\ lastCall'.res = "error" \/ (i = 11 /\ ShownRecorded(cur) # {})
      ]_vars

\* the twelfth poll of a model is about to be made
C17_Witness ==
    /\ pc = "del_models" /\ stage = "wait"
    /\ i = 11

\* C18: a first poll that succeeds and shows no asset of the model from the
\* pending-asset set makes _wait_for_assets_deletion return True at once:
\* one list_assets call was issued and line 218 is next
C18_FirstPollEmptyReturnsTrue ==
    [][(/\ pc = "del_models" /\ stage = "wait" /\ i = 0
        /\ lastCall'.op = "list_assets" /\ lastCall'.res = "ok"
        /\ ShownRecorded(cur) = {}) =>
          /\ stage' = "delete" /\ pc' = pc /\ cur' = cur
          /\ i' = 0
          /\ waitFalse' = waitFalse
      ]_vars

\* the first poll of a model showed nothing and its deletion is next
C18_Witness ==
    /\ pc = "del_models" /\ stage = "delete" /\ i = 0
    /\ lastCall.op = "list_assets" /\ lastCall.res = "ok"
    /\ cur \in Range(asset_model_ids_to_delete)

C20_OneDeletePerIdentifier ==
    [][/\ (pc = "del_assets" /\ stage = "delete" /\ lastCall'.op = "delete_asset")
            => <<"delete_asset", cur, 198>> \notin calls
       /\ (pc = "del_models" /\ stage = "delete" /\ lastCall'.op = "delete_asset_model")
            => <<"delete_asset_model", cur, 218>> \notin calls]_vars

\* asset B was recorded twice, delete_assets has run to its end and has
\* issued delete_asset for B
C20_Witness ==
    /\ pc = "del_models"
    /\ Cardinality({k \in DOMAIN asset_ids_to_delete : asset_ids_to_delete[k] = "B"}) = 2
    /\ <<"delete_asset", "B", 198>> \in calls

\* C21: delete_asset (line 198) and delete_asset_model (line 218) are issued
\* for the identifier of the running iteration, after the describe call of
\* that iteration (lines 193, 210) returned the resource; a describe that
\* fails or reports not-found ends the iteration without a delete call for
\* the identifier, and the loop goes on
C21_DeleteFollowsDescribe ==
    [][/\ (pc = "del_assets" /\ stage = "delete" /\ lastCall'.op = "delete_asset")
            => /\ lastCall = Call("describe_asset", cur, "ok", 193)
               /\ lastCall'.id = cur
       /\ (pc = "del_models" /\ stage = "pick" /\ stage' # "pick")
            => /\ lastCall' = Call("describe_asset_model", cur', "ok", 210)
               /\ stage' = "wait"
       /\ (pc = "del_models" /\ stage # "pick" /\ stage' # "pick") => cur' = cur
       /\ (pc = "del_models" /\ stage = "delete" /\ lastCall'.op = "delete_asset_model")
            => /\ lastCall'.id = cur
               /\ <<"describe_asset_model", cur, 210>> \in calls
       /\ (/\ pc \in {"del_assets", "del_models"} /\ stage = "pick"
           /\ lastCall' # lastCall /\ lastCall'.line \in {193, 210}
           /\ lastCall'.res # "ok")
            => /\ stage' = "pick"
               /\ ~BagIn(lastCall'.id, unique_ids') \/ pc' # pc
               /\ pc' \notin {"raised", "done"} \/ lastCall'.line = 210
               /\ <<"delete_asset", lastCall'.id, 198>> \notin calls'
                      \/ lastCall'.line = 210
               /\ <<"delete_asset_model", lastCall'.id, 218>> \notin calls'
                      \/ lastCall'.line = 193]_vars

\* an asset of the pending set is not found at line 193: no delete_asset is
\* issued for it and cleanup has gone on to delete_asset_models
C21_Witness ==
    /\ pc = "del_models" /\ stage = "pick"
    /\ lastCall = Call("describe_asset", "A", "notfound", 193)
    /\ "A" \in Range(asset_ids_to_delete)
    /\ <<"delete_asset", "A", 198>> \notin calls
    /\ BagIn("M1", unique_ids)

\* C22: delete_data_streams issues delete_time_series only for an alias that
\* begins with DATA_STREAM_PREFIX: an alias that does not begin with the
\* prefix is never deleted
C22_DeletesOnlyPrefixedAliases ==
    \A c \in calls :
        c[1] = "delete_time_series" => BeginsWith(DATA_STREAM_PREFIX, AliasText[c[2]])

\* the computation models for which delete_computation_model was issued are
\* bound to the asset and were described before
OnlyModelsOfTheAssetDeleted ==
    \A c \in calls' :
        c[1] = "delete_computation_model"
            => /\ CompAsset[c[2]] = ConfigAssetId
               /\ <<"describe_computation_model", c[2], 290>> \in calls'

\* the scan reached every computation model and a delete call was issued for
\* every model it found for the asset
EveryModelOfTheAssetDeleted ==
    /\ \A k \in compModels : <<"describe_computation_model", k, 290>> \in calls'
    /\ \A k \in Range(acc) : <<"delete_computation_model", k, 254>> \in calls'

\* C23, as claimed: when delete_computation_models returns after a listing
\* that did not fail, every page was scanned and delete_computation_model was
\* issued for exactly the models found for the asset
C23_DeletesExactlyTheModelsOfTheAsset ==
    [][/\ OnlyModelsOfTheAssetDeleted
       /\ (pc = "comp" /\ pc' # "comp" /\ lastCall'.op # "list_computation_models")
            => EveryModelOfTheAssetDeleted]_vars

\* C23, amended: delete_computation_model is issued only for models found for
\* the asset; a failing describe skips the model and the scan goes on; every
\* page is scanned and every model found gets its delete call, unless
\* list_computation_models (line 270) or delete_computation_model (line 254)
\* raises, which ends the operation (line 257) with the rest left in place
C23_DeletesTheModelsOfTheAssetUnlessACallRaises ==
    [][/\ OnlyModelsOfTheAssetDeleted
       /\ (pc = "comp" /\ pc' # "comp")
            => \/ EveryModelOfTheAssetDeleted
               \/ /\ lastCall'.res = "error"
                  /\ lastCall'.op \in {"list_computation_models", "delete_computation_model"}
       /\ (/\ pc = "comp" /\ stage = "describe"
           /\ lastCall'.op = "describe_computation_model" /\ lastCall'.res = "error"
           /\ (Tail(page) # <<>> \/ next_token # 0))
            => pc' = "comp" /\ acc' = acc /\ page' = Tail(page)]_vars

\* both models of the asset were found on two pages and deleted, the model
\* of the other asset is left
C23_Witness ==
    /\ pc = "getmodel"
    /\ lastCall = Call("delete_computation_model", "K3", "ok", 254)
    /\ <<"delete_computation_model", "K1", 254>> \in calls
    /\ compModels = {"K2"}

\* C24: when the describe call of line 111 fails or reports not-found, the
\* call of disassociate_all_assets returns at once: nothing is listed,
\* disassociated or recorded for the asset, no exception escapes, and the
\* caller is back in its loop over the children (line 143)
C24_FailedDescribeEndsTheBranch ==
    [][(/\ pc = "walk" /\ astack # <<>> /\ ATop.st = "describe"
        /\ lastCall' # lastCall /\ lastCall'.line = 111 /\ lastCall'.res # "ok")
           => /\ astack' = SubSeq(astack, 1, Len(astack) - 1)
              /\ pc' = IF Len(astack) = 1 THEN "comp" ELSE "walk"
              /\ Len(astack) > 1 => astack'[Len(astack')].st = "recurse"
              /\ assoc' = assoc
              /\ asset_ids_to_delete' = asset_ids_to_delete
              /\ <<"list_associated_assets", lastCall'.id, 123>> \notin calls']_vars

\* the describe call for child B failed, nothing was listed for B, and the
\* walk has gone on to describe its sibling C
C24_Witness ==
    /\ pc = "walk"
    /\ lastCall = Call("describe_asset", "C", "ok", 111)
    /\ asset_ids_to_delete = <<"A", "B", "C">>
    /\ faults < MaxFaults /\ run = 1
    /\ <<"describe_asset", "B", 111>> \in calls
    /\ <<"list_associated_assets", "B", 123>> \notin calls
    /\ <<"list_associated_assets", "A", 123>> \in calls
    /\ \A c \in calls : c[1] = "disassociate_assets" => c[2] \in {"B", "C"}
    /\ Cardinality({c \in calls : c[1] = "disassociate_assets"}) = 2
    /\ assoc = assoc0 \ {<<"A", "h1", "B">>, <<"A", "h1", "C">>}
    /\ Cardinality(assoc0) = 2 \/ <<"B", "h2", "D">> \in assoc

\* asset a had no associated child when the walk began: it has no
\* hierarchies, or no hierarchy of it has a child
Leaf(a) == \A e \in assoc0 : e[1] # a

\* C25: a call of disassociate_all_assets for an asset with zero hierarchies,
\* or with hierarchies without children, has recorded the asset, never gets
\* to the disassociate call of line 133, collects no child and is never the
\* caller of a recursive call
C25_LeafIsRecordedOnly ==
    pc = "walk" =>
        \A j \in 1..Len(astack) :
            Leaf(astack[j].id) =>
                /\ j = Len(astack)
                /\ astack[j].id \in Range(asset_ids_to_delete)
                /\ astack[j].st \in {"describe", "list", "recurse"}
                /\ astack[j].children = <<>> /\ astack[j].page = <<>>

\* the walk is in the call for C, whose one hierarchy was listed and is
\* empty, after the call for D, which has no hierarchies, returned
C25_Witness ==
    /\ pc = "walk" /\ Len(astack) = 2
    /\ ATop.id = "C" /\ ATop.st = "recurse" /\ ATop.children = <<>>
    /\ lastCall = Call("list_associated_assets", "C", "ok", 123)
    /\ AssetHierarchies("C") # {} /\ AssetHierarchies("D") = {}
    /\ Leaf("C") /\ Leaf("D")
    /\ asset_ids_to_delete = <<"A", "B", "D", "C">>
    /\ <<"describe_asset", "D", 111>> \in calls
    /\ <<"list_associated_assets", "D", 123>> \notin calls
    /\ \A c \in calls : c[1] = "disassociate_assets" => c[2] \in {"B", "C", "D"}
    /\ faults = MaxFaults

\* C26: delete_assets and delete_asset_models leave asset_ids_to_delete as
\* the walk recorded it, and _wait_for_assets_deletion returns True (line
\* 236) only when no recorded asset is in the listing of the model, the
\* assets delete_asset was issued for included
C26_WaitCountsEveryRecordedAsset ==
    [][/\ (pc \in {"del_assets", "del_models"})
            => /\ asset_ids_to_delete' = asset_ids_to_delete \/ pc' = "kill"
               /\ Range(asset_ids_to_delete) = Issued("describe_asset", 111)
       /\ (pc = "del_models" /\ stage = "wait" /\ stage' = "delete")
            => ShownRecorded(cur) = {}
       /\ (pc = "del_models" /\ stage = "wait" /\ lastCall'.res = "ok"
           /\ ShownRecorded(cur) # {})
            => stage' # "delete"]_vars

\* delete_asset was issued for a recorded asset, the asset is still listed
\* for its model, and the wait has gone into a further round because of it
C26_Witness ==
    /\ pc = "del_models" /\ stage = "wait" /\ i > 0
    /\ lastCall = Call("list_assets", cur, "ok", 231)
    /\ \E a \in ShownRecorded(cur) :
          /\ assetStatus[a] = "DELETING"
          /\ <<"delete_asset", a, 198>> \in calls

\* the identifiers of the service calls issued at a source line, after the step
IssuedAfter(line) == {c[2] : c \in {x \in calls' : x[3] = line}}

\* C27: a describe or delete call that fails for one identifier in
\* delete_assets or delete_asset_models raises nothing and ends only the
\* iteration of that identifier: the other identifiers stay to be visited,
\* every recorded asset has been visited when delete_assets is over, and a
\* visited asset that is found goes on to its delete call
C27_FailureEndsOneIteration ==
    [][/\ (/\ pc \in {"del_assets", "del_models"}
           /\ lastCall' # lastCall /\ lastCall'.res = "error"
           /\ lastCall'.line \in {193, 198, 210, 218})
            => /\ pc' # "raised"
               /\ stage' = "pick"
               /\ pc' = pc => unique_ids' = unique_ids (-) SetToBag({lastCall'.id})
               /\ pc' # pc => unique_ids (-) SetToBag({lastCall'.id}) = EmptyBag
       /\ (pc' \in {"del_models", "streams", "done"})
            => Range(asset_ids_to_delete') = IssuedAfter(193)
       /\ (pc' \in {"streams", "done"})
            => Range(asset_model_ids_to_delete') = IssuedAfter(210)
       /\ (pc = "del_assets" /\ stage = "pick" /\ lastCall' # lastCall
           /\ lastCall'.line = 193 /\ lastCall'.res = "ok")
            => stage' = "delete" /\ cur' = lastCall'.id /\ pc' = pc]_vars

\* delete_asset failed for one asset and was then issued, with success, for
\* another
C27_Witness ==
    /\ lastCall.op = "delete_asset" /\ lastCall.res = "ok"
    /\ faults < MaxFaults /\ run = 1
    /\ \E a \in Range(asset_ids_to_delete) \ {lastCall.id} :
          /\ <<"delete_asset", a, 198>> \in calls
          /\ assetStatus[a] = "ACTIVE"
          /\ \A e \in assoc : e[1] # a /\ e[3] # a

\* root A has one hierarchy with the children B and C, and B has the child D
ScenarioABCD ==
    /\ assoc0 = {<<"A", "h1", "B">>, <<"A", "h1", "C">>, <<"B", "h2", "D">>}
    /\ {hd[1] : hd \in modelHier0[assetModelId["A"]]} = {"h1"}

\* disassociate_all_assets(A) has returned in the first invocation and no
\* service call failed
WalkOverWithoutFailure == pc = "comp" /\ run = 1 /\ faults = MaxFaults

DisassociateCalls == {c \in calls : c[1] = "disassociate_assets"}

\* C28, as claimed: in the scenario the walk issues exactly 4 disassociate
\* calls
C28_FourDisassociateCalls ==
    (ScenarioABCD /\ WalkOverWithoutFailure) => Cardinality(DisassociateCalls) = 4

\* C28, amended: in the scenario the walk issues exactly 3 disassociate
\* calls, for the children B, C and D (A->B, A->C, B->D), none with C or D
\* as the parent, and records A, B, C and D
C28_ThreeDisassociateCalls ==
    (ScenarioABCD /\ WalkOverWithoutFailure)
        => /\ Cardinality(DisassociateCalls) = 3
           /\ {c[2] : c \in DisassociateCalls} = {"B", "C", "D"}
           /\ assoc = {}
           /\ Issued("list_associated_assets", 123) = {"A", "B", "C"}
           /\ Range(asset_ids_to_delete) = {"A", "B", "C", "D"}
           /\ Len(asset_ids_to_delete) = 4

\* the walk of the scenario is over
C28_Witness ==
    /\ ScenarioABCD /\ WalkOverWithoutFailure
    /\ asset_ids_to_delete = <<"A", "B", "D", "C">>
    /\ assoc = {}

\* wait_for_model_update is running for the model of the top frame
WaitingForUpdate == pc = "strip" /\ mstack # <<>> /\ MTop.st = "wait"

\* C29: wait_for_model_update returns True only on a poll (line 96), made
\* after the update call of line 169, that returned ACTIVE; a poll that
\* returns FAILED raises (the call of remove_model_properties ends); on any
\* other state it polls again; and once the service reports ACTIVE or FAILED
\* for the model the wait comes to its end
C29_WaitEndsOnTerminalState ==
    /\ [][WaitingForUpdate =>
            /\ (Len(mstack') = Len(mstack) /\ mstack'[Len(mstack')].st # "wait")
                 => /\ lastCall' = Call("describe_asset_model", MTop.id, "ACTIVE", 96)
                    /\ <<"update_asset_model", MTop.id, 169>> \in calls
                    /\ mstack'[Len(mstack')].st = "recurse"
            /\ (lastCall' # lastCall /\ lastCall'.res = "FAILED")
                 => /\ mstack' = SubSeq(mstack, 1, Len(mstack) - 1)
                    /\ activeSeen' = activeSeen
            /\ (lastCall' # lastCall
                /\ lastCall'.res \notin {"ACTIVE", "FAILED", "error", "notfound"})
                 => /\ Len(mstack') = Len(mstack)
                    /\ mstack'[Len(mstack')].st = "wait"
                    /\ pc' = pc]_vars
    /\ (WaitingForUpdate /\ modelStatus[MTop.id] \in {"ACTIVE", "FAILED"})
           ~> ~WaitingForUpdate

\* the wait for M2 saw UPDATING, polled again and returned on ACTIVE
C29_Witness ==
    /\ pc = "strip" /\ Len(mstack) = 2
    /\ MTop.id = "M2" /\ MTop.st = "recurse" /\ MTop.state = "ACTIVE"
    /\ lastCall = Call("describe_asset_model", "M2", "ACTIVE", 96)
    /\ "M2" \in activeSeen
    /\ modelHier["M2"] = {} /\ modelHier0["M2"] # {}

\* the assets that can be reached from the assets of S along associations of g
RECURSIVE ReachAssets(_, _)
ReachAssets(S, g) ==
    LET T == S \cup {e[3] : e \in {x \in g : x[1] \in S}}
    IN  IF T = S THEN S ELSE ReachAssets(T, g)

\* C30: the first recorded asset is the root, every later one was listed
\* (line 123) as a child of an asset recorded before it, and no asset that
\* the associations do not connect to the root is recorded, handed to
\* delete_asset or deleted
C30_OnlyReachableAssetsRecorded ==
    /\ \A j \in 1..Len(asset_ids_to_delete) :
          IF j = 1 THEN asset_ids_to_delete[j] = ConfigAssetId /\ asset_id = ConfigAssetId
          ELSE \E k \in 1..(j - 1) : \E e \in assoc0 :
                  /\ e[1] = asset_ids_to_delete[k] /\ e[3] = asset_ids_to_delete[j]
                  /\ <<"list_associated_assets", e[1], 123>> \in calls
    /\ Range(asset_ids_to_delete) \subseteq ReachAssets({ConfigAssetId}, assoc0)
    /\ Issued("delete_asset", 198) \subseteq ReachAssets({ConfigAssetId}, assoc0)
    /\ \A a \in WalkAssets \ ReachAssets({ConfigAssetId}, assoc0) : assetStatus[a] = "ACTIVE"

\* cleanup is over: B, the child of the root, was recorded and deleted, and
\* C, which nothing connects to the root, was neither recorded nor deleted
C30_Witness ==
    /\ pc = "done"
    /\ assoc0 = {<<"A", "h1", "B">>}
    /\ asset_ids_to_delete = <<"A", "B">>
    /\ Issued("delete_asset", 198) = {"A", "B"}
    /\ assetStatus["B"] # "ACTIVE" /\ assetStatus["C"] = "ACTIVE"

\* C31: remove_model_properties comes to its end on every graph of hierarchy
\* definitions, cycles and self-references included: a model that is
\* described again (line 152) after its update was seen ACTIVE has no
\* hierarchy definitions left, so the call for it has no child to recurse
\* into, and a model is recursed from only after its update was seen ACTIVE
C31_StripTerminates ==
    /\ [][/\ (/\ pc = "strip" /\ mstack # <<>> /\ MTop.st = "describe"
              /\ lastCall' = Call("describe_asset_model", MTop.id, "ok", 152)
              /\ MTop.id \in activeSeen)
               => /\ Len(mstack') = Len(mstack)
                  /\ mstack'[Len(mstack')].children = <<>>
                  /\ mstack'[Len(mstack')].model_details = {}
          /\ (pc = "strip" /\ Len(mstack') > Len(mstack))
               => /\ MTop.id \in activeSeen
                  /\ modelHier[MTop.id] = {}]_vars
    /\ <>(pc # "strip")

\* M1 refers to itself: the call for M1 recursed into M1 after the update,
\* and the inner call found no hierarchy definition
C31_Witness ==
    /\ pc = "strip" /\ Len(mstack) = 2
    /\ mstack[1].id = "M1" /\ mstack[2].id = "M1"
    /\ <<"h1", "M1">> \in modelHier0["M1"]
    /\ MTop.st = "update" /\ MTop.children = <<>>
    /\ lastCall = Call("describe_asset_model", "M1", "ok", 152)
    /\ "M1" \in activeSeen

(***************************************************************************)
(* remove_l4e_resources.py on its own: lines 126-154.                      *)
(***************************************************************************)
NextL4E ==
    \/ \E fail \in BOOLEAN : InternalFromExternalAssetId(fail)
    \/ \E fail \in BOOLEAN : DatasetNamesFromAsset(fail)
    \/ \E fail \in BOOLEAN : ModelNamesFromDataset(fail)
    \/ \E fail \in BOOLEAN : InferenceSchedulerNamesFromModel(fail)
    \/ \E fail \in BOOLEAN : InferenceSchedulerStatus(fail)
    \/ \E fail \in BOOLEAN : StopInferenceScheduler(fail)
    \/ \E s \in Schedulers : ServiceSchedulerStopped(s)
    \/ \E fail \in BOOLEAN : DeleteInferenceSchedulers(fail)
    \/ \E fail \in BOOLEAN : DeleteModels(fail)
    \/ \E fail \in BOOLEAN : DeleteDatasets(fail)

SpecL4E == InitL4E /\ [][NextL4E]_vars

\* the step issues a call of operation op
IssuedOp(op) == lastCall'.op = op /\ (lastCall' # lastCall \/ calls' # calls)

\* C32: a scheduler that was seen RUNNING leaves the wait of lines 95-99 only
\* on an answer STOPPED (or the script ends on an exception), and a step that
\* issues delete_inference_scheduler is taken in the loop of line 147, after
\* the loop of line 145 has gone through every scheduler: each one is stopped
\* or already deleted by then, and each one that was stopped was seen STOPPED
C32_DeleteAfterStopAndWait ==
    [][/\ (/\ pc = "l4e_stop" /\ stage = "pick"
           /\ IssuedOp("describe_inference_scheduler")
           /\ lastCall'.res = "RUNNING")
            => /\ pc' = "l4e_stop" /\ stage' = "stop" /\ i' = i
       /\ (pc = "l4e_stop" /\ IssuedOp("stop_inference_scheduler"))
            => \/ pc' = "l4e_raised"
               \/ pc' = "l4e_stop" /\ stage' = "poll" /\ i' = i
       /\ (pc = "l4e_stop" /\ stage = "poll" /\ (pc' # pc \/ stage' # stage \/ i' # i))
            => \/ pc' = "l4e_raised"
               \/ lastCall' = Call("describe_inference_scheduler",
                                   inference_scheduler_names[i], "STOPPED", 83)
       /\ IssuedOp("delete_inference_scheduler")
            => /\ pc = "l4e_del_schedulers"
               /\ \A c \in calls : c[1] \notin {"delete_model", "delete_dataset"}
               /\ \A s \in Range(inference_scheduler_names) :
                     schedulerStatus[s] \in {"STOPPED", "NONE"}
       /\ (pc \in {"l4e_resolve", "l4e_datasets", "l4e_models", "l4e_schedulers",
                   "l4e_stop"})
            => \A c \in calls : c[1] # "delete_inference_scheduler"]_vars

\* is1 was seen RUNNING, was stopped, and is deleted after is2 was handled
C32_Witness ==
    /\ lastCall = Call("delete_inference_scheduler", "is1", "ok", 106)
    /\ <<"stop_inference_scheduler", "is1", 87>> \in calls
    /\ "is2" \in Range(inference_scheduler_names)

\* C33: a step that issues delete_inference_scheduler comes before every
\* delete_model and delete_dataset call; a step that issues delete_model comes
\* when a delete was issued for every discovered scheduler and none of them is
\* left, and before every delete_dataset call; a step that issues
\* delete_dataset comes when a delete was issued for every discovered model
\* and none of them is left
C33_DependentsDeletedFirst ==
    [][/\ IssuedOp("delete_inference_scheduler")
            => \A c \in calls : c[1] \notin {"delete_model", "delete_dataset"}
       /\ IssuedOp("delete_model")
            => /\ \A c \in calls : c[1] # "delete_dataset"
               /\ \A s \in Range(inference_scheduler_names) :
                     /\ <<"delete_inference_scheduler", s, 106>> \in calls
                     /\ schedulerStatus[s] = "NONE"
       /\ IssuedOp("delete_dataset")
            => /\ \A m \in Range(model_names) :
                     /\ <<"delete_model", m, 114>> \in calls
                     /\ m \notin l4eModels
               /\ \A s \in Range(inference_scheduler_names) :
                     <<"delete_inference_scheduler", s, 106>> \in calls]_vars

\* the dataset goes last, after its model and the model's scheduler
C33_Witness ==
    /\ lastCall = Call("delete_dataset", "d1", "ok", 122)
    /\ <<"delete_model", "lm1", 114>> \in calls
    /\ <<"delete_inference_scheduler", "is1", 106>> \in calls

(***************************************************************************)
(* The scripts that create resources.  They share the service with the    *)
(* cleanup scripts but are run on their own.                                *)
(***************************************************************************)
\* what none of these scripts reads or writes
idlev == <<assetStatus, assetModelId, assoc, modelHier, timeSeries, run, lists, stacks,
           unique_ids, cur, acc, page, assoc0, modelHier0, waitFalse, asset_id,
           next_token, dataset_names, model_names, inference_scheduler_names, datasets,
           l4eModels, schedulerStatus>>

\* the account as the creating scripts find it: asset A of model M1, no cleanup
NoCleanup ==
    /\ assetStatus = [a \in Assets |-> IF a = "A" THEN "ACTIVE" ELSE "NONE"]
    /\ assetModelId = [a \in Assets |-> "M1"]
    /\ assoc = {} /\ assoc0 = {}
    /\ modelHier = [m \in Models |-> {}]
    /\ modelHier0 = [m \in Models |-> {}]
    /\ timeSeries = {}
    /\ run = 1
    /\ asset_id = None
    /\ asset_ids_to_delete = <<>> /\ asset_model_ids_to_delete = <<>>
    /\ astack = <<>> /\ mstack = <<>>
    /\ unique_ids = EmptyBag /\ cur = None
    /\ next_token = 0 /\ acc = <<>> /\ page = <<>>
    /\ waitFalse = {}
    /\ dataset_names = <<>> /\ model_names = <<>> /\ inference_scheduler_names = <<>>
    /\ datasets = {} /\ l4eModels = {}
    /\ schedulerStatus = [s \in Schedulers |-> "NONE"]
    /\ faults = MaxFaults
    /\ lastCall = NoCall /\ calls = {}
    /\ activeSeen = {}
    /\ stage = "pick" /\ i = 0

(***************************************************************************)
(* src/anomaly-detection/train_model.py                                    *)
(***************************************************************************)
\* the identifier create_computation_model answers with
NewComputationModel == "K1"

\* the names the account may already hold when the script starts
InitTrain ==
    /\ NoCleanup
    /\ modelStatus = [m \in Models |-> IF m = "M1" THEN "ACTIVE" ELSE "NONE"]
    /\ compModels \in SUBSET (CompModels \ {NewComputationModel})
    /\ pc = "t_create"
    /\ cmState = "NONE"
    /\ action_definition_id = None
    /\ training_config \in [evaluation : BOOLEAN, labels : BOOLEAN]
    /\ action_payload = {}
    /\ ImportIdle
    /\ PredictionIdle
    /\ transferJob = [state |-> "NONE", succeeded |-> 0]

\* create_computation_model, lines 79-113, up to the call of line 109; the
\* handler of line 111 logs and raises again
CreateComputationModel(fail) ==
    /\ pc = "t_create"
    /\ Fault(fail)
    /\ IF fail
       THEN /\ pc' = "t_raised"
            /\ UNCHANGED <<cmState, compModels>>
            /\ Issue(Call("create_computation_model", None, "error", 88))
       ELSE /\ pc' = "t_wait"
            /\ cmState' = "CREATING"
            /\ compModels' = compModels \cup {NewComputationModel}
            /\ Issue(Call("create_computation_model", None, "ok", 88))
    /\ UNCHANGED <<idlev, modelStatus, activeSeen, stage, i, action_definition_id,
                   training_config, action_payload, importv, predv, transferJob>>

\* the service finishes the creation, one way or the other
ServiceComputationModelCreated(ok) ==
    /\ cmState = "CREATING"
    /\ cmState' = IF ok THEN "ACTIVE" ELSE "FAILED"
    /\ UNCHANGED <<idlev, modelStatus, compModels, activeSeen, pc, stage, i, faults,
                   lastCall, calls, action_definition_id, training_config,
                   action_payload, importv, predv, transferJob>>

\* the wait ends at the first answer that is not FAILED
ModelActive_AnyState(state) == TRUE

\* line 73
ModelActive(state) == state = "ACTIVE"

\* wait_for_computation_model_creation, lines 66-77: one turn of the loop,
\* with get_computation_model_state, lines 61-64
WaitForComputationModelCreation(fail) ==
    /\ pc = "t_wait"
    /\ Fault(fail)
    /\ IF fail
       THEN /\ pc' = "t_raised"
            /\ activeSeen' = activeSeen
            /\ Issue(Call("describe_computation_model", NewComputationModel, "error", 63))
       ELSE /\ Issue(Call("describe_computation_model", NewComputationModel, cmState, 63))
            /\ IF cmState = "FAILED"
               THEN \* line 72, and line 113
                    /\ pc' = "t_raised"
                    /\ activeSeen' = activeSeen
               ELSE IF ModelActive(cmState)
               THEN \* line 75, then lines 110 and 187
                    /\ pc' = "t_actiondef"
                    /\ activeSeen' = activeSeen \cup {NewComputationModel}
               ELSE \* line 77: sleep and ask again
                    /\ pc' = pc
                    /\ activeSeen' = activeSeen
    /\ UNCHANGED <<idlev, modelStatus, compModels, stage, i, cmState, action_definition_id,
                   training_config, action_payload, importv, predv, transferJob>>

\* get_action_definition_id, lines 115-124: the response names the training
\* action or it does not
GetActionDefinitionId(fail, present) ==
    /\ pc = "t_actiondef"
    /\ Fault(fail)
    /\ IF fail
       THEN /\ pc' = "t_raised"
            /\ action_definition_id' = action_definition_id
            /\ Issue(Call("describe_computation_model", NewComputationModel, "error", 117))
       ELSE /\ pc' = "t_execute"
            /\ action_definition_id' = IF present THEN "ad1" ELSE None
            /\ Issue(Call("describe_computation_model", NewComputationModel, cmState, 117))
    /\ UNCHANGED <<idlev, modelStatus, compModels, activeSeen, stage, i, cmState,
                   training_config, action_payload, importv, predv, transferJob>>

\* the keys of the payload, lines 133-161
ActionPayload(cfg) ==
    {"exportDataStartTime", "exportDataEndTime", "targetSamplingRate"}
      \cup (IF cfg.evaluation THEN {"modelEvaluationConfiguration"} ELSE {})
      \cup (IF cfg.labels THEN {"labelInputConfiguration"} ELSE {})

\* train_model, lines 126-172: the call of line 164; without an action
\* definition id the request is refused
TrainModel(fail) ==
    /\ pc = "t_execute"
    /\ Fault(fail)
    /\ action_payload' = ActionPayload(training_config)
    /\ IF fail \/ action_definition_id = None
       THEN /\ pc' = "t_raised"
            /\ Issue(Call("execute_action", NewComputationModel, "error", 164))
       ELSE /\ pc' = "t_done"
            /\ Issue(Call("execute_action", NewComputationModel, "ok", 164))
    /\ UNCHANGED <<idlev, modelStatus, compModels, activeSeen, stage, i, cmState,
                   action_definition_id, training_config, importv, predv, transferJob>>

NextTrain ==
    \/ \E fail \in BOOLEAN : CreateComputationModel(fail)
    \/ \E ok \in BOOLEAN : ServiceComputationModelCreated(ok)
    \/ \E fail \in BOOLEAN : WaitForComputationModelCreation(fail)
    \/ \E fail, present \in BOOLEAN : GetActionDefinitionId(fail, present)
    \/ \E fail \in BOOLEAN : TrainModel(fail)

SpecTrain == InitTrain /\ [][NextTrain]_vars

\* C34: a step that issues execute_action comes after a describe of line 63
\* that answered ACTIVE for the new computation model; a describe of line 63
\* that answers FAILED ends run by the exception of line 72; after run has
\* raised nothing more is called; and execute_action is not among the calls
\* once FAILED was answered
C34_TrainOnlyWhenActive ==
    /\ [][/\ IssuedOp("execute_action")
               => /\ lastCall'.id = NewComputationModel
                  /\ NewComputationModel \in activeSeen
          /\ (NewComputationModel \in activeSeen' /\ NewComputationModel \notin activeSeen)
               => lastCall' = Call("describe_computation_model", NewComputationModel,
                                   "ACTIVE", 63)
          /\ (IssuedOp("describe_computation_model") /\ lastCall'.line = 63
              /\ lastCall'.res = "FAILED")
               => pc' = "t_raised"
          /\ pc = "t_raised" => (pc' = "t_raised" /\ calls' = calls)]_vars
    /\ [](lastCall = Call("describe_computation_model", NewComputationModel, "FAILED", 63)
            => /\ pc = "t_raised"
               /\ \A c \in calls : c[1] # "execute_action")

\* the training action is submitted after the model was seen CREATING and ACTIVE
C34_Witness ==
    /\ lastCall = Call("execute_action", NewComputationModel, "ok", 164)
    /\ NewComputationModel \in activeSeen
    /\ pc = "t_done"

\* a poll saw FAILED and run has raised
C34_WitnessFailed ==
    /\ lastCall = Call("describe_computation_model", NewComputationModel, "FAILED", 63)
    /\ pc = "t_raised"

(***************************************************************************)
(* src/data-bulk-import/import_historical_data.py: check_job_status        *)
(***************************************************************************)
\* the statuses of a bulk import job
JobStatuses == {"PENDING", "RUNNING", "COMPLETED", "FAILED", "CANCELLED"}

\* create_jobs has returned: every created job has an id of its own and is
\* known to the service, in whatever status
InitImport ==
    /\ NoCleanup
    /\ modelStatus = [m \in Models |-> IF m = "M1" THEN "ACTIVE" ELSE "NONE"]
    /\ compModels = {}
    /\ TrainIdle
    /\ PredictionIdle
    /\ transferJob = [state |-> "NONE", succeeded |-> 0]
    /\ pc = "j_copy"
    /\ job_ids \in {s \in UNION {[1..n -> Jobs] : n \in 0..Cardinality(Jobs)} :
                        NoDuplicates(s)}
    /\ active_job_ids = <<>>
    /\ \E st \in [Jobs -> JobStatuses] :
          jobStatus = [j \in Jobs |-> IF j \in Range(job_ids) THEN st[j] ELSE "NONE"]
    /\ reported = <<>>

\* line 164; the for statement of line 168 starts at the first entry
CopyJobIds ==
    /\ pc = "j_copy"
    /\ active_job_ids' = job_ids
    /\ i' = 1
    /\ pc' = "j_for"
    /\ Quiet
    /\ UNCHANGED <<idlev, modelStatus, compModels, activeSeen, stage, faults, trainv,
                   job_ids, jobStatus, reported, predv, transferJob>>

\* the service moves a job on
ServiceJobAdvances(j, s) ==
    /\ \/ jobStatus[j] = "PENDING" /\ s \in {"RUNNING", "CANCELLED"}
       \/ jobStatus[j] = "RUNNING" /\ s \in {"COMPLETED", "FAILED", "CANCELLED"}
    /\ jobStatus' = [jobStatus EXCEPT ![j] = s]
    /\ UNCHANGED <<idlev, modelStatus, compModels, activeSeen, pc, stage, i, faults,
                   lastCall, calls, trainv, job_ids, active_job_ids, reported,
                   predv, transferJob>>

\* list_bulk_import_jobs, lines 143-154: the summaries of all pages
ListBulkImportJobs ==
    LET known == {j \in Jobs : jobStatus[j] # "NONE"}
    IN  [k \in 1..Cardinality(known) |->
           LET j == Listing(known)[k] IN [id |-> j, status |-> jobStatus[j]]]

\* job_status, lines 156-160: the status of the last summary with the id
JobStatus(job_id) ==
    LET all == ListBulkImportJobs
        at == {k \in 1..Len(all) : all[k].id = job_id}
    IN  IF at = {} THEN None
        ELSE all[CHOOSE k \in at : \A x \in at : x <= k].status

\* list.remove: the first entry equal to x is taken out
Remove(s, x) ==
    LET at == {k \in 1..Len(s) : s[k] = x}
        first == CHOOSE k \in at : \A y \in at : k <= y
    IN  [k \in 1..(Len(s) - 1) |-> IF k < first THEN s[k] ELSE s[k + 1]]

\* a job that is still running counts as finished
Finished_NotPending(status) == status # "PENDING"

\* line 170
Finished(status) == status \notin {"PENDING", "RUNNING"}

\* lines 168-172: the for statement takes the entry at its position and moves
\* the position on, whatever line 172 does to the list
CheckJob(fail) ==
    /\ pc = "j_for"
    /\ i <= Len(active_job_ids)
    /\ Fault(fail)
    /\ LET job_id == active_job_ids[i]
           status == JobStatus(job_id)
       IN  IF fail
           THEN /\ pc' = "j_raised"
                /\ UNCHANGED <<i, active_job_ids, reported>>
                /\ Issue(Call("list_bulk_import_jobs", job_id, "error", 145))
           ELSE /\ pc' = pc
                /\ i' = i + 1
                /\ Issue(Call("list_bulk_import_jobs", job_id, status, 145))
                /\ IF Finished(status)
                   THEN /\ reported' = Append(reported, <<job_id, status>>)
                        /\ active_job_ids' = Remove(active_job_ids, job_id)
                   ELSE UNCHANGED <<active_job_ids, reported>>
    /\ UNCHANGED <<idlev, modelStatus, compModels, activeSeen, stage, trainv, job_ids,
                   jobStatus, predv, transferJob>>

\* lines 173-175: the for statement is exhausted; return or sleep and go round
EndOfPass ==
    /\ pc = "j_for"
    /\ i > Len(active_job_ids)
    /\ IF Len(active_job_ids) = 0
       THEN pc' = "j_done" /\ i' = i
       ELSE pc' = pc /\ i' = 1
    /\ Quiet
    /\ UNCHANGED <<idlev, modelStatus, compModels, activeSeen, stage, faults, trainv,
                   importv, predv, transferJob>>

NextImport ==
    \/ CopyJobIds
    \/ \E j \in Jobs, s \in JobStatuses : ServiceJobAdvances(j, s)
    \/ \E fail \in BOOLEAN : CheckJob(fail)
    \/ EndOfPass

SpecImport == InitImport /\ [][NextImport]_vars

\* the lines check_job_status printed for job j
ReportsOf(j) == {k \in 1..Len(reported) : reported[k][1] = j}

\* C35: no job is reported twice and no report shows PENDING or RUNNING; and
\* when check_job_status has returned, every created job was reported once,
\* with the status it has, which is neither PENDING nor RUNNING
C35_EveryJobReportedOnce ==
    /\ \A j \in Jobs : Cardinality(ReportsOf(j)) <= 1
    /\ \A k \in 1..Len(reported) :
          /\ reported[k][1] \in Range(job_ids)
          /\ reported[k][2] \notin {"PENDING", "RUNNING"}
          /\ reported[k][2] = jobStatus[reported[k][1]]
    /\ pc = "j_done"
         => /\ active_job_ids = <<>>
            /\ \A j \in Range(job_ids) :
                  /\ Cardinality(ReportsOf(j)) = 1
                  /\ jobStatus[j] \notin {"PENDING", "RUNNING"}

\* j2 was passed over when j1 was taken out of the list, and reported in the
\* next round
C35_Witness ==
    /\ pc = "j_done"
    /\ job_ids = <<"j1", "j2", "j3">>
    /\ reported = <<<<"j1", "COMPLETED">>, <<"j3", "FAILED">>, <<"j2", "COMPLETED">>>>

(***************************************************************************)
(* src/lookout-for-equipment/create_l4e_model.py, lines 224-229            *)
(***************************************************************************)
\* Python's == between values of the types str and dict: values of different
\* types are not equal
PyEq(x, y) == x.type = y.type /\ x.val = y.val

\* the response of describe_asset_model: assetModelStatus is a structure
\* that holds the state (as read at remove_resources.py, line 97)
DescribeAssetModelResponse(m) ==
    [assetModelStatus |-> [type |-> "dict", val |-> [state |-> modelStatus[m]]]]

\* line 123: res["assetModelStatus"] == "UPDATING"
StillCreating(res) == PyEq(res.assetModelStatus, [type |-> "str", val |-> "UPDATING"])

\* the ids line 76 can collect: those of the properties of the asset model
\* whose external id is one of the four of lines 45-50, in the model's order
TrainingPropertyIds ==
    LET all == <<"p1", "p2", "p3", "p4">>
        Held(S) == LET F[k \in 0..Len(all)] ==
                           IF k = 0 THEN <<>>
                           ELSE IF k \in S THEN Append(F[k - 1], all[k]) ELSE F[k - 1]
                   IN  F[Len(all)]
    IN  {Held(S) : S \in SUBSET (1..Len(all))}

InitPrediction ==
    /\ NoCleanup
    /\ modelStatus = [m \in Models |-> IF m = "M1" THEN "ACTIVE" ELSE "NONE"]
    /\ compModels = {}
    /\ TrainIdle
    /\ ImportIdle
    /\ PredictionIdle
    /\ transferJob = [state |-> "NONE", succeeded |-> 0]
    /\ pc = "p_asset"

\* get_asset_id_from_external_id, lines 86-89, called at line 224; the asset
\* of the external id is A
PredGetAssetId(fail) ==
    /\ pc = "p_asset"
    /\ Fault(fail)
    /\ pc' = IF fail THEN "p_raised" ELSE "p_model"
    /\ Issue(Call("describe_asset", "A", IF fail THEN "error" ELSE "ok", 87))
    /\ UNCHANGED <<idlev, modelStatus, compModels, activeSeen, stage, i, trainv, importv,
                   predv, transferJob>>

\* get_model_id_from_asset_external_id, lines 80-84, called at line 226
GetModelIdFromAssetExternalId(fail) ==
    /\ pc = "p_model"
    /\ Fault(fail)
    /\ pc' = IF fail THEN "p_raised" ELSE "p_props"
    /\ Issue(Call("describe_asset", "A", IF fail THEN "error" ELSE "ok", 81))
    /\ UNCHANGED <<idlev, modelStatus, compModels, activeSeen, stage, i, trainv, importv,
                   predv, transferJob>>

\* get_property_ids_from_external_ids, lines 67-78, called at line 227
GetPropertyIdsFromExternalIds(fail, ids) ==
    /\ pc = "p_props"
    /\ Fault(fail)
    /\ IF fail
       THEN /\ pc' = "p_raised"
            /\ training_property_ids' = training_property_ids
            /\ Issue(Call("describe_asset_model", assetModelId["A"], "error", 70))
       ELSE /\ pc' = "p_create"
            /\ training_property_ids' = ids
            /\ Issue(Call("describe_asset_model", assetModelId["A"],
                          modelStatus[assetModelId["A"]], 70))
    /\ UNCHANGED <<idlev, modelStatus, compModels, activeSeen, stage, i, trainv, importv,
                   prediction_definition_id, transferJob>>

\* create_prediction_definition, lines 103-118: return False without
\* properties, else the request of line 112; the model is UPDATING then
CreatePredictionDefinition(fail) ==
    /\ pc = "p_create"
    /\ IF training_property_ids = <<>>
       THEN /\ ~fail
            /\ pc' = "p_returned"
            /\ prediction_definition_id' = "False"
            /\ Quiet
            /\ UNCHANGED <<faults, modelStatus>>
       ELSE /\ Fault(fail)
            /\ prediction_definition_id' = prediction_definition_id
            /\ IF fail
               THEN /\ pc' = "p_raised"
                    /\ modelStatus' = modelStatus
                    /\ Issue(Call("create_asset_model_composite_model", assetModelId["A"],
                                  "error", 112))
               ELSE /\ pc' = "p_poll"
                    /\ modelStatus' = [modelStatus EXCEPT ![assetModelId["A"]] = "UPDATING"]
                    /\ Issue(Call("create_asset_model_composite_model", assetModelId["A"],
                                  "ok", 112))
    /\ UNCHANGED <<idlev, compModels, activeSeen, stage, i, trainv, importv,
                   training_property_ids, transferJob>>

\* create_prediction_definition, lines 119-128: one turn of the loop
PollPredictionDefinition(fail) ==
    /\ pc = "p_poll"
    /\ Fault(fail)
    /\ LET m == assetModelId["A"]
           res == DescribeAssetModelResponse(m)
       IN  IF fail
           THEN /\ pc' = "p_raised"
                /\ prediction_definition_id' = prediction_definition_id
                /\ Issue(Call("describe_asset_model", m, "error", 120))
           ELSE /\ Issue(Call("describe_asset_model", m, res.assetModelStatus.val.state, 120))
                /\ IF StillCreating(res)
                   THEN \* line 124, and round again
                        /\ pc' = pc
                        /\ prediction_definition_id' = prediction_definition_id
                   ELSE \* lines 126-128
                        /\ pc' = "p_returned"
                        /\ prediction_definition_id' = "cm1"
    /\ UNCHANGED <<idlev, modelStatus, compModels, activeSeen, stage, i, trainv, importv,
                   training_property_ids, transferJob>>

NextPrediction ==
    \/ \E fail \in BOOLEAN : PredGetAssetId(fail)
    \/ \E fail \in BOOLEAN : GetModelIdFromAssetExternalId(fail)
    \/ \E fail \in BOOLEAN, ids \in TrainingPropertyIds : GetPropertyIdsFromExternalIds(fail, ids)
    \/ \E fail \in BOOLEAN : CreatePredictionDefinition(fail)
    \/ \E m \in Models, ok \in BOOLEAN : ServiceModelUpdated(m, ok)
    \/ \E fail \in BOOLEAN : PollPredictionDefinition(fail)

SpecPrediction == InitPrediction /\ [][NextPrediction]_vars

\* C36: create_prediction_definition returns the composite model id on a
\* describe of line 120 that showed a state other than UPDATING, and a
\* describe of line 120 that shows UPDATING is followed by another turn of
\* the loop
C36_ReturnsAfterUpdateEnded ==
    [][/\ (pc = "p_poll" /\ pc' = "p_returned")
            => /\ lastCall'.op = "describe_asset_model" /\ lastCall'.line = 120
               /\ lastCall'.res \in {"ACTIVE", "FAILED"}
       /\ (pc = "p_poll" /\ IssuedOp("describe_asset_model") /\ lastCall'.res = "UPDATING")
            => (pc' = "p_poll" /\ prediction_definition_id' = prediction_definition_id)]_vars

\* the composite model id was returned on an answer UPDATING
C36_ReturnedWhileUpdating ==
    /\ pc = "p_returned"
    /\ prediction_definition_id = "cm1"
    /\ lastCall = Call("describe_asset_model", "M1", "UPDATING", 120)
    /\ modelStatus["M1"] = "UPDATING"

(***************************************************************************)
(* src/metadata-bulk-import/import_sitewise_models_assets.py, lines        *)
(* 163-165                                                                 *)
(***************************************************************************)
\* the entries of the definitions file the job has to import
TotalCount == 3

\* the states of a metadata transfer job after which it does not change
TransferTerminal == {"COMPLETED", "ERROR", "CANCELLED"}

InitTransfer ==
    /\ NoCleanup
    /\ modelStatus = [m \in Models |-> IF m = "M1" THEN "ACTIVE" ELSE "NONE"]
    /\ compModels = {}
    /\ TrainIdle
    /\ ImportIdle
    /\ PredictionIdle
    /\ transferJob = [state |-> "NONE", succeeded |-> 0]
    /\ pc = "m_upload"

\* upload_file_to_s3, lines 66-70, called at line 163
UploadFileToS3(fail) ==
    /\ pc = "m_upload"
    /\ Fault(fail)
    /\ pc' = IF fail THEN "m_raised" ELSE "m_create"
    /\ Issue(Call("upload_file", None, IF fail THEN "error" ELSE "ok", 69))
    /\ UNCHANGED <<idlev, modelStatus, compModels, activeSeen, stage, i, trainv, importv,
                   predv, transferJob>>

\* create_metadata_job, lines 73-87, called at line 164
CreateMetadataJob(fail) ==
    /\ pc = "m_create"
    /\ Fault(fail)
    /\ IF fail
       THEN /\ pc' = "m_raised"
            /\ transferJob' = transferJob
            /\ Issue(Call("create_metadata_transfer_job", None, "error", 74))
       ELSE /\ pc' = "m_poll"
            /\ transferJob' = [state |-> "VALIDATING", succeeded |-> 0]
            /\ Issue(Call("create_metadata_transfer_job", None, "ok", 74))
    /\ UNCHANGED <<idlev, modelStatus, compModels, activeSeen, stage, i, trainv, importv,
                   predv>>

\* the service moves the job on or imports one more entry, or someone
\* cancels the job
ServiceTransferAdvances(s) ==
    /\ \/ transferJob.state = "VALIDATING" /\ s \in {"PENDING", "ERROR", "CANCELLING"}
       \/ transferJob.state = "PENDING" /\ s \in {"RUNNING", "CANCELLING"}
       \/ transferJob.state = "RUNNING" /\ s \in {"ERROR", "CANCELLING"}
       \/ transferJob.state = "RUNNING" /\ s = "RUNNING"
             /\ transferJob.succeeded < TotalCount
       \/ transferJob.state = "RUNNING" /\ s = "COMPLETED"
             /\ transferJob.succeeded = TotalCount
       \/ transferJob.state = "CANCELLING" /\ s = "CANCELLED"
    /\ transferJob' = [state |-> s,
                       succeeded |-> IF s = "RUNNING" /\ transferJob.state = "RUNNING"
                                     THEN transferJob.succeeded + 1
                                     ELSE transferJob.succeeded]
    /\ UNCHANGED <<idlev, modelStatus, compModels, activeSeen, pc, stage, i, faults,
                   lastCall, calls, trainv, importv, predv>>

\* print_job_status, lines 90-115: one turn of the loop
PrintJobStatus(fail) ==
    /\ pc = "m_poll"
    /\ Fault(fail)
    /\ IF fail
       THEN /\ pc' = "m_raised"
            /\ Issue(Call("get_metadata_transfer_job", None, "error", 94))
       ELSE LET state == transferJob.state
            IN  /\ Issue(Call("get_metadata_transfer_job", None, state, 94))
                /\ pc' = IF state \in {"RUNNING", "COMPLETED"}
                         THEN \* lines 97-101, 111, and the test of line 112
                              IF state = "COMPLETED" THEN "m_done" ELSE pc
                         ELSE IF state = "ERROR"
                         THEN \* line 108
                              "m_done"
                         ELSE \* lines 110-112
                              IF state = "COMPLETED" THEN "m_done" ELSE pc
    /\ UNCHANGED <<idlev, modelStatus, compModels, activeSeen, stage, i, trainv, importv,
                   predv, transferJob>>

NextTransfer ==
    \/ \E fail \in BOOLEAN : UploadFileToS3(fail)
    \/ \E fail \in BOOLEAN : CreateMetadataJob(fail)
    \/ \E s \in TransferTerminal \cup {"PENDING", "RUNNING", "CANCELLING"} :
          ServiceTransferAdvances(s)
    \/ \E fail \in BOOLEAN : PrintJobStatus(fail)

\* the script goes on polling, and the service goes on with a job that is
\* not in a terminal state
SpecTransfer ==
    /\ InitTransfer
    /\ [][NextTransfer]_vars
    /\ WF_vars(PrintJobStatus(FALSE))
    /\ WF_vars(\E s \in TransferTerminal \cup {"PENDING", "RUNNING", "CANCELLING"} :
                  ServiceTransferAdvances(s))

\* C37: when the job is in a terminal state while print_job_status polls,
\* print_job_status ends
C37_EndsOnTerminalState ==
    (pc = "m_poll" /\ transferJob.state \in TransferTerminal) ~> (pc # "m_poll")

\* the same for the two terminal states the loop tests for
C37_EndsOnCompletedOrError ==
    (pc = "m_poll" /\ transferJob.state \in {"COMPLETED", "ERROR"}) ~> (pc # "m_poll")

\* the job is cancelled, print_job_status has seen it and polls on
C37_PollsCancelledJob ==
    /\ pc = "m_poll"
    /\ transferJob.state = "CANCELLED"
    /\ lastCall = Call("get_metadata_transfer_job", None, "CANCELLED", 94)

============================================================================
